---- MODULE Spec2Model ----
(***************************************************************************)
(* A model of naistrix: the declarative command tree (Command, Argument),  *)
(* the argument binder (Arguments), the built-in argument-count            *)
(* validators, tree initialisation with duplicate detection               *)
(* (Application.AddCommand, Command.init), the run loop with the           *)
(* deprecation redirect (Application.Run) and the reconciliation of flag   *)
(* values from the command line, the environment and the configuration     *)
(* file (syncViperToFlags).                                                *)
(*                                                                         *)
(* Go values are modelled as follows.  A []string is a sequence of         *)
(* strings.  An error is a record with a "msg" field holding the format    *)
(* string of the message and one field per formatted operand; the nil      *)
(* error is Nil.  A Command is a record with the fields of the Go struct   *)
(* that the modelled code reads; RunFunc and ValidateFunc are tags naming   *)
(* what the function does when called ("nil" when the field is nil).       *)
(***************************************************************************)
EXTENDS Naturals, Integers, Sequences, FiniteSets, TLC

VARIABLES
    \* ---- argument binder (SpecArgs) ----
    aSpecs,     \* commandArgs: the command's []Argument
    aTokens,    \* userArgs: the positional tokens
    aBound,     \* the *Arguments built by newArguments
    aCheck,     \* the error returned by the built-in argument-count check
    aAll,       \* the result of Arguments.All()
    aGet,       \* the last accessor call on the *Arguments and its outcome
    aPc,        \* position: "new", "bound", "checked", "done", "got"
    \* ---- Application: the command tree (SpecTree, SpecRun) ----
    commands,       \* a.commands
    rootChildren,   \* the children of a.rootCommand, in the order added
    addErr,         \* the error returned by the last AddCommand
    addCalls,       \* number of AddCommand calls made by the author
    lastBatch,      \* the commands passed to the last AddCommand
    \* ---- Application.Run (SpecRun) ----
    rPc,            \* "ready", "loop" (inside Run's for loop), "returned"
    runs,           \* number of Run calls started
    argv,           \* ro.args
    runErr,         \* the error the last Run returned
    executedCommand,\* path of a.executedCommand, <<>> for nil
    bodies,         \* the RunFunc invocations of the current Run, in order
    noColors,       \* GlobalFlags.NoColors and its pflag: [value, changed]
    sentinel,       \* ErrDeprecatedCommandWithoutReplacement.Replacement
    hops,           \* redirects taken by the current Run
    visited,        \* paths of the commands the current Run redirected from
    lastExec,       \* what the last ExecuteContextC resolved and returned
    start,          \* the flags, sentinel and first replacement of the current Run
    reconciled,     \* the flag structs synced before the last dispatch, in order
    prevRun,        \* argv and returned error of the Run before the current one
    \* ---- one global flag and its value sources (SpecFlags) ----
    fKind,          \* kind of the struct field
    fDefault,       \* the value assigned to the field before registration
    fFile,          \* the key's value in the configuration file, if present
    fEnv,           \* the flag's environment variable, if set
    fCli,           \* the flag's value on the command line, if given
    fField,         \* the struct field
    fPflag,         \* the pflag value registered for the field: [value, changed]
    fSeen,          \* the field as the command body read it
    fPc,            \* "declared", "registered", "parsed", "synced", "run"
    additionalGlobalFlags,  \* a.additionalGlobalFlags: the structs AddGlobalFlags added
    \* ---- flag registration (SpecReg) ----
    rootFlags,      \* a.rootCommand.PersistentFlags(): the flags registered, in order
    regBefore,      \* rootFlags before the last AddGlobalFlags call
    regLast,        \* the flags value passed to the last AddGlobalFlags call
    regOut,         \* what the last AddGlobalFlags call returned, or its panic
    regCalls,       \* number of AddGlobalFlags calls made by the author
    \* ---- the configuration file and the config commands (SpecConfig) ----
    cfgFile,        \* the configuration file at the fixed --config path
    cfgBefore,      \* the file before the last run
    cfgArgv,        \* the argv of the last run
    cfgOut,         \* what the body of the last run printed, in order
    cfgErr,         \* the error the last Run returned
    cfgBodies,      \* the RunFunc invocations of the last run
    cfgWrites,      \* the number of times the last run wrote the file
    cfgPrev,        \* argv, error and output of the run before the last
    \* ---- NewApplication (SpecNew) ----
    nName,          \* the name passed to NewApplication, a sequence of characters
    nTitle,         \* the title passed
    nVersion,       \* the version passed
    nErr,           \* the error NewApplication returned
    nPc             \* "args", "returned"

argVars == <<aSpecs, aTokens, aBound, aCheck, aAll, aGet, aPc>>
treeVars == <<commands, rootChildren, addErr, addCalls, lastBatch>>
runVars == <<rPc, runs, argv, runErr, executedCommand, bodies, noColors, sentinel,
             hops, visited, lastExec, start, reconciled, prevRun>>

flagVars == <<fKind, fDefault, fFile, fEnv, fCli, fField, fPflag, fSeen, fPc,
              additionalGlobalFlags>>

regVars == <<rootFlags, regBefore, regLast, regOut, regCalls>>

cfgVars == <<cfgFile, cfgBefore, cfgArgv, cfgOut, cfgErr, cfgBodies, cfgWrites, cfgPrev>>

newVars == <<nName, nTitle, nVersion, nErr, nPc>>

vars == <<argVars, treeVars, runVars, flagVars, regVars, cfgVars, newVars>>

(***************************************************************************)
(* Bounds of the model.                                                    *)
(***************************************************************************)
MaxSpecs == 3
MaxTokens == 4
MaxKids == 2
MaxAddCalls == 2
MaxArgv == 3
MaxRuns == 2
MaxHops == 3
MaxCmdArgs == 2
MaxRegCalls == 2
MaxNameLen == 3

(***************************************************************************)
(* Helpers.                                                                *)
(***************************************************************************)
Nil == [msg |-> "nil"]

SeqsUpTo(S, n) == UNION {[1..k -> S] : k \in 0..n}

MinOf(a, b) == IF a < b THEN a ELSE b

(***************************************************************************)
(* Input alphabets.                                                        *)
(***************************************************************************)
ArgNames == {"", "x", "y"}
Tokens == {"t1", "t2"}
ArgumentSet == [Name : ArgNames, Repeatable : BOOLEAN]

(***************************************************************************)
(* arguments.go                                                            *)
(***************************************************************************)

\* newArguments: the i-th specification takes the i-th token, a repeatable one
\* takes the tokens from the i-th on; specifications past the last token are
\* left out.
newArgumentsSkipFirst(commandArgs, userArgs) ==
    [i \in 1..MinOf(Len(commandArgs), Len(userArgs)) |->
        [name |-> commandArgs[i].Name,
         repeatable |-> commandArgs[i].Repeatable,
         value |-> IF commandArgs[i].Repeatable
                   THEN SubSeq(userArgs, i + 1, Len(userArgs))
                   ELSE <<userArgs[i]>>]]

newArguments(commandArgs, userArgs) ==
    [i \in 1..MinOf(Len(commandArgs), Len(userArgs)) |->
        [name |-> commandArgs[i].Name,
         repeatable |-> commandArgs[i].Repeatable,
         value |-> IF commandArgs[i].Repeatable
                   THEN SubSeq(userArgs, i, Len(userArgs))
                   ELSE <<userArgs[i]>>]]

\* Arguments.Len
ArgsLen(a) == Len(a)

\* Arguments.All: the loop over a.args from index i with the slice built so far.
RECURSIVE AllFrom(_, _, _)
AllFrom(a, i, ret) ==
    IF i > Len(a) THEN ret
    ELSE IF a[i].repeatable THEN ret \o a[i].value
    ELSE AllFrom(a, i + 1, ret \o a[i].value)

All(a) == AllFrom(a, 1, <<>>)

\* the outcome of an accessor: the value returned, or the panic raised
Returned(v) == [value |-> v]
Panic(format, name) == [panic |-> [msg |-> format, name |-> name]]

\* Get returning the first slot's value, whatever the name asked for
GetFirstSlot(a, name) ==
    IF Len(a) > 0 /\ ~a[1].repeatable THEN Returned(a[1].value[1])
    ELSE Panic("%q is not a valid argument", name)

\* Get matching on the name alone
GetAnyCardinality(a, name) ==
    IF \E i \in 1..Len(a) : a[i].name = name
    THEN Returned(a[CHOOSE i \in 1..Len(a) : a[i].name = name].value[1])
    ELSE Panic("%q is not a valid argument", name)

\* Arguments.Get: the loop over a.args from index i
RECURSIVE GetFrom(_, _, _)
GetFrom(a, name, i) ==
    IF i > Len(a) THEN Panic("%q is not a valid argument", name)
    ELSE IF a[i].name = name /\ ~a[i].repeatable THEN Returned(a[i].value[1])
    ELSE GetFrom(a, name, i + 1)

Get(a, name) == GetFrom(a, name, 1)

\* Arguments.GetRepeatable: the loop over a.args from index i
RECURSIVE GetRepeatableFrom(_, _, _)
GetRepeatableFrom(a, name, i) ==
    IF i > Len(a) THEN Panic("%q is not a valid repeatable argument", name)
    ELSE IF a[i].name = name /\ a[i].repeatable THEN Returned(a[i].value)
    ELSE GetRepeatableFrom(a, name, i + 1)

GetRepeatable(a, name) == GetRepeatableFrom(a, name, 1)

(***************************************************************************)
(* validate.go (current version, over *Arguments)                          *)
(***************************************************************************)
plural(n) == IF n = 1 THEN "" ELSE "s"

Errorf3(format, n, s, got) == [msg |-> format, n |-> n, s |-> s, got |-> got]

\* ValidateExactArgs accepting fewer arguments than n
ValidateExactArgsAtMost(n, args) ==
    IF ArgsLen(args) > n
    THEN Errorf3("Expected exactly %d argument%s, got %d", n, plural(n), ArgsLen(args))
    ELSE Nil

ValidateExactArgs(n, args) ==
    IF ArgsLen(args) # n
    THEN Errorf3("Expected exactly %d argument%s, got %d", n, plural(n), ArgsLen(args))
    ELSE Nil

ValidateMinArgsOffByOne(n, args) ==
    IF ArgsLen(args) <= n
    THEN Errorf3("Expected at least %d argument%s, got %d", n, plural(n), ArgsLen(args))
    ELSE Nil

ValidateMinArgs(n, args) ==
    IF ArgsLen(args) < n
    THEN Errorf3("Expected at least %d argument%s, got %d", n, plural(n), ArgsLen(args))
    ELSE Nil

(***************************************************************************)
(* Command (the declaration read by init, validate and the run hooks).     *)
(*   RunFunc:      "nil" | "ok" (returns nil) | "fail" (returns an error)  *)
(*   ValidateFunc: "nil" | "ok" | "fail"                                   *)
(*   Flags, StickyFlags:  the name of a flags value, "nil" for none        *)
(*   Deprecated:   [kind |-> "nil"]                                        *)
(*               | [kind |-> "static", args |-> tokens]                    *)
(*               | [kind |-> "func"]    (replacement computed from args)   *)
(*               | [kind |-> "without"]                                    *)
(***************************************************************************)
NotDeprecated == [kind |-> "nil"]

Cmd(name, aliases, title, runFunc, validateFunc, subs, args, deprecated) ==
    [Name |-> name, Aliases |-> aliases, Title |-> title, RunFunc |-> runFunc,
     ValidateFunc |-> validateFunc, SubCommands |-> subs, Args |-> args,
     Deprecated |-> deprecated, Flags |-> "nil", StickyFlags |-> "nil"]

Leaf(name, aliases) ==
    Cmd(name, aliases, "title", "ok", "nil", <<>>, <<>>, NotDeprecated)

Branch(name, aliases, subs) ==
    Cmd(name, aliases, "title", "nil", "nil", subs, <<>>, NotDeprecated)

(***************************************************************************)
(* Command.validateArgs: the checks of the declared arguments, and the     *)
(* built-in count validator it prepends to ValidateFunc.                   *)
(***************************************************************************)
\* validateArgs checking the names only
validateArgsNamesOnly(args) ==
    IF \E i \in 1..Len(args) : args[i].Name = ""
    THEN [msg |-> "argument name (%+v) cannot be empty",
          arg |-> args[CHOOSE i \in 1..Len(args) : args[i].Name = ""]]
    ELSE Nil

RECURSIVE validateArgsFrom(_, _)
validateArgsFrom(args, i) ==
    IF i > Len(args) THEN Nil
    ELSE IF args[i].Name = ""
    THEN [msg |-> "argument name (%+v) cannot be empty", arg |-> args[i]]
    ELSE IF args[i].Repeatable /\ i # Len(args)
    THEN [msg |-> "a repeatable argument (%+v) must be the last argument for the command",
          arg |-> args[i]]
    ELSE validateArgsFrom(args, i + 1)

validateArgs(args) == validateArgsFrom(args, 1)

hasRepeatable(args) == \E i \in 1..Len(args) : args[i].Repeatable

\* validationFunc as chosen by validateArgs, applied to the bound arguments.
validationFunc(cmdArgs, bound) ==
    IF Len(cmdArgs) > 0 /\ hasRepeatable(cmdArgs) THEN ValidateMinArgs(Len(cmdArgs), bound)
    ELSE IF Len(cmdArgs) > 0 THEN ValidateExactArgs(Len(cmdArgs), bound)
    ELSE Nil

(***************************************************************************)
(* Strings of the model and the string functions the code applies to them. *)
(***************************************************************************)
AppName == "app"
BlankStrings == {"", " "}
SpacedStrings == {" ", "a b"}
TwoLineTitle == "two\nlines"

\* strings.TrimSpace(s) == ""
TrimSpaceIsEmpty(s) == s \in BlankStrings
\* strings.Contains(s, " ")
ContainsSpace(s) == s \in SpacedStrings
\* strings.Contains(s, "\n")
ContainsNewline(s) == s = TwoLineTitle

(***************************************************************************)
(* Command.validate                                                        *)
(***************************************************************************)
validateOnlyNeither(c) ==
    IF TrimSpaceIsEmpty(c.Name) THEN [msg |-> "command name cannot be empty"]
    ELSE IF ContainsSpace(c.Name)
    THEN [msg |-> "command name %q contain spaces", name |-> c.Name]
    ELSE IF TrimSpaceIsEmpty(c.Title)
    THEN [msg |-> "command %q is missing a title", name |-> c.Name]
    ELSE IF ContainsNewline(c.Title)
    THEN [msg |-> "title for command %q contains newline", name |-> c.Name]
    ELSE IF c.RunFunc = "nil" /\ Len(c.SubCommands) = 0
    THEN [msg |-> "either RunFunc or SubCommands must be set for command: %v",
          name |-> c.Name]
    ELSE validateArgs(c.Args)

validate(c) ==
    IF TrimSpaceIsEmpty(c.Name) THEN [msg |-> "command name cannot be empty"]
    ELSE IF ContainsSpace(c.Name)
    THEN [msg |-> "command name %q contain spaces", name |-> c.Name]
    ELSE IF TrimSpaceIsEmpty(c.Title)
    THEN [msg |-> "command %q is missing a title", name |-> c.Name]
    ELSE IF ContainsNewline(c.Title)
    THEN [msg |-> "title for command %q contains newline", name |-> c.Name]
    ELSE IF \/ (c.RunFunc = "nil" /\ Len(c.SubCommands) = 0)
            \/ (c.RunFunc # "nil" /\ Len(c.SubCommands) > 0)
    THEN [msg |-> "either RunFunc or SubCommands must be set for command: %v",
          name |-> c.Name]
    ELSE validateArgs(c.Args)

(***************************************************************************)
(* duplicate: the first value already seen, "" when there is none.         *)
(***************************************************************************)
RECURSIVE duplicateFrom(_, _, _)
duplicateFrom(values, i, seen) ==
    IF i > Len(values) THEN ""
    ELSE IF values[i] \in seen THEN values[i]
    ELSE duplicateFrom(values, i + 1, seen \cup {values[i]})

RECURSIVE duplicateAdjacentFrom(_, _)
duplicateAdjacentFrom(values, i) ==
    IF i >= Len(values) THEN ""
    ELSE IF values[i] = values[i + 1] THEN values[i]
    ELSE duplicateAdjacentFrom(values, i + 1)

duplicateAdjacent(values) == duplicateAdjacentFrom(values, 1)

duplicate(values) == duplicateFrom(values, 1, {})

\* commandsAndAliases as the loops of AddCommand and init build it: each
\* command's Name followed by its Aliases.
RECURSIVE commandsAndAliasesFrom(_, _)
commandsAndAliasesFrom(cmds, i) ==
    IF i > Len(cmds) THEN <<>>
    ELSE <<cmds[i].Name>> \o cmds[i].Aliases \o commandsAndAliasesFrom(cmds, i + 1)

commandsAndAliases(cmds) == commandsAndAliasesFrom(cmds, 1)

(***************************************************************************)
(* flag.go: registration.  A flags value is designated by the name of the  *)
(* author's variable; FlagsOf gives what the variable holds:               *)
(*   [kind |-> "nil"]                   no flags                           *)
(*   [kind |-> "value"]                 not a pointer                      *)
(*   [kind |-> "ptr", elem |-> "string"]  a pointer to something else than *)
(*                                        a struct                         *)
(*   [kind |-> "ptr", elem |-> "struct", fields |-> <<field, ...>>]        *)
(* A field is [Name, Tag, Type, Ref]: the Go identifier, the struct tag,   *)
(* the Go type and, for a field of type "*struct", the name of the flags   *)
(* value it points to ("nil" for a nil pointer and for every other type).  *)
(* A parser scope (pflag.FlagSet) is the sequence of its flags.            *)
(***************************************************************************)
NoTag == [usage |-> "u"]
Fld(name, tag, type) == [Name |-> name, Tag |-> tag, Type |-> type, Ref |-> "nil"]
RefFld(name, ref) == [Name |-> name, Tag |-> NoTag, Type |-> "*struct", Ref |-> ref]
Struct(fields) == [kind |-> "ptr", elem |-> "struct", fields |-> fields]

\* the flags values of the model
QuietField == Fld("Quiet", [name |-> "quiet", short |-> "q", usage |-> "u"], "bool")
FlagsOf(id) ==
    CASE id = "nil" -> [kind |-> "nil"]
      [] id = "foobar" -> [kind |-> "value"]
      [] id = "ptrString" -> [kind |-> "ptr", elem |-> "string"]
      [] id = "quiet" -> Struct(<<QuietField>>)
      [] id = "shortQu" -> Struct(<<Fld("Quiet", [short |-> "qu"], "bool")>>)
      [] id = "flagMap" -> Struct(<<Fld("Flag", NoTag, "map")>>)
      [] id = "verbose" -> Struct(<<Fld("Verbose", [name |-> "verbose"], "Count")>>)
      [] id = "config" -> Struct(<<Fld("Force", NoTag, "bool"), Fld("Config", NoTag, "string")>>)
      [] id = "create" ->
           Struct(<<RefFld("GlobalFlags", "quiet"),
                    Fld("Resources", [name |-> "resources", short |-> "r"], "[]MyString")>>)
      [] id = "createNil" ->
           Struct(<<RefFld("GlobalFlags", "nil"), Fld("Force", NoTag, "bool")>>)
      [] id = "refBad" -> Struct(<<RefFld("Inner", "flagMap"), Fld("Force", NoTag, "bool")>>)
      [] id = "kinds" ->
           Struct(<<Fld("S", NoTag, "string"), Fld("B", NoTag, "bool"), Fld("U", NoTag, "uint"),
                    Fld("L", NoTag, "[]string"), Fld("I", NoTag, "int"),
                    Fld("D", NoTag, "Duration"), Fld("C", NoTag, "Count"),
                    Fld("M", NoTag, "MyString")>>)
      [] id = "hidden" ->
           Struct(<<Fld("cache", [short |-> "qu"], "map"), Fld("verbose", NoTag, "bool")>>)
      [] id = "myInt" -> Struct(<<Fld("I", NoTag, "MyInt")>>)
      [] id = "float" -> Struct(<<Fld("Force", NoTag, "bool"), Fld("F", NoTag, "float64")>>)
      [] id = "ints" -> Struct(<<Fld("L", NoTag, "[]int")>>)
      [] id = "ptrField" -> Struct(<<Fld("S", NoTag, "*string")>>)
      [] id = "twice" ->
           Struct(<<Fld("A", [name |-> "x"], "bool"), Fld("B", [name |-> "x"], "string")>>)
      [] id = "shortV" -> Struct(<<Fld("Vee", [short |-> "v"], "bool")>>)
      [] id = "shortDup" ->
           Struct(<<Fld("Verbose", [name |-> "verbose", short |-> "ver"], "Count")>>)
      [] id = "grpFlags" -> Struct(<<Fld("Team", NoTag, "string")>>)
      [] id = "subFlags" -> Struct(<<Fld("Env", NoTag, "string")>>)
      [] id = "extra" -> Struct(<<QuietField>>)
      [] id = "flags" -> Struct(<<Fld("Flag", NoTag, "string")>>)

FlagsIds == {"nil", "foobar", "ptrString", "quiet", "shortQu", "flagMap", "verbose",
             "config", "create", "createNil", "refBad", "kinds", "hidden", "myInt",
             "float", "ints", "ptrField", "twice", "shortV", "shortDup"}

\* len(s) of the short tags of the model
ByteLen(s) ==
    CASE s = "" -> 0
      [] s \in {"q", "r", "v"} -> 1
      [] s = "qu" -> 2
      [] s = "ver" -> 3

\* strings.ToLower on the field identifiers of the model
ToLower(s) ==
    CASE s = "Quiet" -> "quiet" [] s = "Flag" -> "flag" [] s = "Verbose" -> "verbose"
      [] s = "Config" -> "config" [] s = "Force" -> "force" [] s = "Resources" -> "resources"
      [] s = "GlobalFlags" -> "globalflags" [] s = "Inner" -> "inner"
      [] s = "Team" -> "team" [] s = "Env" -> "env" [] s = "Vee" -> "vee"
      [] s = "S" -> "s" [] s = "B" -> "b" [] s = "U" -> "u" [] s = "L" -> "l"
      [] s = "I" -> "i" [] s = "D" -> "d" [] s = "C" -> "c" [] s = "M" -> "m"
      [] s = "F" -> "f" [] s = "A" -> "a"
      [] s = "VerboseLevel" -> "verboselevel" [] s = "NoColors" -> "nocolors"
      [] s = "K" -> "k"
      [] OTHER -> s

\* reflect.StructField.IsExported: the identifier starts with an upper-case letter
IsExported(field) == ToLower(field.Name) # field.Name

\* reflect.Kind of a field type, and of the element type of a slice type
KindOf(type) ==
    CASE type \in {"string", "MyString"} -> "string"
      [] type \in {"[]string", "[]MyString", "[]int"} -> "slice"
      [] type \in {"int", "MyInt", "Count"} -> "int"
      [] type = "Duration" -> "int64"
      [] type \in {"*struct", "*string"} -> "pointer"
      [] OTHER -> type

ElemKindOf(type) == IF type = "[]int" THEN "int" ELSE "string"

getFlagName(field) ==
    IF "name" \in DOMAIN field.Tag THEN field.Tag.name ELSE ToLower(field.Name)

getFlagShort(field) ==
    IF "short" \in DOMAIN field.Tag THEN field.Tag.short ELSE ""

\* unwrap: the type of the pointer handed to setupFlag for a field of the type
unwrap(type) ==
    IF KindOf(type) = "string" THEN "string"
    ELSE IF KindOf(type) = "slice" /\ ElemKindOf(type) = "string" THEN "[]string"
    ELSE type

validateFlags(flags) ==
    IF flags.kind # "ptr" THEN [msg |-> "expected flags to be a pointer"]
    ELSE IF flags.elem # "struct" THEN [msg |-> "expected flags to be a pointer to a struct"]
    ELSE Nil

FlagNames(scope) == {scope[i].name : i \in 1..Len(scope)}
Shorthands(scope) == {scope[i].short : i \in 1..Len(scope)} \ {""}

\* the outcome of a registration: the error returned or the panic raised,
\* Nil for neither, and the parser scope afterwards
IsPanic(e) == "panic" \in DOMAIN e

\* setupFlag without the lookup of the name
setupFlagNoLookup(name, short, type, scope) ==
    IF ByteLen(short) > 1
    THEN [err |-> [msg |-> "short flag must be a single character"], scope |-> scope]
    ELSE IF type \in {"string", "bool", "uint", "[]string", "int", "Duration", "Count"}
    THEN [err |-> Nil, scope |-> Append(scope, [name |-> name, short |-> short])]
    ELSE [err |-> [msg |-> "unknown flag type: %T", type |-> type], scope |-> scope]

\* setupFlag; pflag panics when the shorthand is already used on the scope
setupFlag(name, short, type, scope) ==
    IF ByteLen(short) > 1
    THEN [err |-> [msg |-> "short flag must be a single character"], scope |-> scope]
    ELSE IF name \in FlagNames(scope)
    THEN [err |-> [msg |-> "duplicate flag name: %q", name |-> name], scope |-> scope]
    ELSE IF type \in {"string", "bool", "uint", "[]string", "int", "Duration", "Count"}
    THEN IF short \in Shorthands(scope)
         THEN [err |-> [panic |-> "unable to redefine %q shorthand", short |-> short],
               scope |-> scope]
         ELSE [err |-> Nil, scope |-> Append(scope, [name |-> name, short |-> short])]
    ELSE [err |-> [msg |-> "unknown flag type: %T", type |-> type], scope |-> scope]

\* the field is skipped: unexported, or a pointer to a struct
Skipped(field) ==
    \/ ~IsExported(field)
    \/ (KindOf(field.Type) = "pointer" /\ field.Type = "*struct" /\ field.Ref # "nil")

\* the loop of setupFlags descending into the struct a field points to
RECURSIVE setupFlagsRecursing(_, _, _)
setupFlagsRecursing(fields, i, scope) ==
    IF i > Len(fields) THEN [err |-> Nil, scope |-> scope]
    ELSE IF ~IsExported(fields[i]) THEN setupFlagsRecursing(fields, i + 1, scope)
    ELSE IF fields[i].Type = "*struct" /\ fields[i].Ref # "nil"
    THEN LET r == setupFlagsRecursing(FlagsOf(fields[i].Ref).fields, 1, scope)
         IN IF r.err # Nil THEN r ELSE setupFlagsRecursing(fields, i + 1, r.scope)
    ELSE LET r == setupFlag(getFlagName(fields[i]), getFlagShort(fields[i]),
                            unwrap(fields[i].Type), scope)
         IN IF r.err = Nil THEN setupFlagsRecursing(fields, i + 1, r.scope)
            ELSE IF IsPanic(r.err) THEN r
            ELSE [err |-> [msg |-> "failed to setup flag %q: %w",
                           name |-> getFlagName(fields[i]), wrapped |-> r.err],
                  scope |-> r.scope]

\* the loop of setupFlags over the fields from the i-th on
RECURSIVE setupFlagsFrom(_, _, _)
setupFlagsFrom(fields, i, scope) ==
    IF i > Len(fields) THEN [err |-> Nil, scope |-> scope]
    ELSE IF Skipped(fields[i]) THEN setupFlagsFrom(fields, i + 1, scope)
    ELSE LET r == setupFlag(getFlagName(fields[i]), getFlagShort(fields[i]),
                            unwrap(fields[i].Type), scope)
         IN IF r.err = Nil THEN setupFlagsFrom(fields, i + 1, r.scope)
            ELSE IF IsPanic(r.err) THEN r
            ELSE [err |-> [msg |-> "failed to setup flag %q: %w",
                           name |-> getFlagName(fields[i]), wrapped |-> r.err],
                  scope |-> r.scope]

\* setupFlags accepting every flags value
setupFlagsUnvalidated(flags, scope) ==
    IF flags.kind = "ptr" /\ flags.elem = "struct"
    THEN setupFlagsFrom(flags.fields, 1, scope)
    ELSE [err |-> Nil, scope |-> scope]

setupFlags(flags, scope) ==
    IF flags.kind = "nil" THEN [err |-> Nil, scope |-> scope]
    ELSE IF validateFlags(flags) # Nil
    THEN [err |-> [msg |-> "invalid flags: %w", wrapped |-> validateFlags(flags)],
          scope |-> scope]
    ELSE setupFlagsFrom(flags.fields, 1, scope)

\* the struct NewApplication registers on the root command's persistent flags
GlobalFlags ==
    Struct(<<Fld("VerboseLevel", [name |-> "verbose", short |-> "v"], "Count"),
             Fld("NoColors", [name |-> "no-colors"], "bool"),
             Fld("Config", [name |-> "config"], "string")>>)

(***************************************************************************)
(* Command.init: validate, then the sub-commands depth first, then the     *)
(* duplicate check of the node's own children.  cmd is the path of the     *)
(* parent (the application name first); the error names cmd + " " + Name.  *)
(***************************************************************************)
RECURSIVE init(_, _)
RECURSIVE initSubCommands(_, _, _)
initSubCommands(subs, i, cmd) ==
    IF i > Len(subs)
    THEN IF duplicate(commandsAndAliases(subs)) # ""
         THEN [msg |-> "command %q contains duplicate commands and/or aliases: %q",
               cmd |-> cmd, d |-> duplicate(commandsAndAliases(subs))]
         ELSE Nil
    ELSE IF init(subs[i], cmd) # Nil THEN init(subs[i], cmd)
    ELSE initSubCommands(subs, i + 1, cmd)

init(c, cmd) ==
    IF validate(c) # Nil THEN validate(c)
    ELSE IF setupFlags(FlagsOf(c.Flags), <<>>).err # Nil
    THEN IF IsPanic(setupFlags(FlagsOf(c.Flags), <<>>).err)
         THEN setupFlags(FlagsOf(c.Flags), <<>>).err
         ELSE [msg |-> "failed to setup flags: %w",
               wrapped |-> setupFlags(FlagsOf(c.Flags), <<>>).err]
    ELSE IF setupFlags(FlagsOf(c.StickyFlags), <<>>).err # Nil
    THEN IF IsPanic(setupFlags(FlagsOf(c.StickyFlags), <<>>).err)
         THEN setupFlags(FlagsOf(c.StickyFlags), <<>>).err
         ELSE [msg |-> "failed to setup persistent flags: %w",
               wrapped |-> setupFlags(FlagsOf(c.StickyFlags), <<>>).err]
    ELSE initSubCommands(c.SubCommands, 1, cmd \o <<c.Name>>)

(***************************************************************************)
(* Application.AddCommand: the loop over the commands of the call.  The    *)
(* result is the error and the commands attached to the root command       *)
(* before the call returned.                                               *)
(***************************************************************************)
RECURSIVE addCommandLoop(_, _)
addCommandLoop(all, i) ==
    IF i > Len(all)
    THEN [err |-> IF duplicate(commandsAndAliases(all)) # ""
                  THEN [msg |-> "the application contains duplicate commands and/or aliases: %q",
                        d |-> duplicate(commandsAndAliases(all))]
                  ELSE Nil,
          attached |-> all]
    ELSE IF init(all[i], <<AppName>>) # Nil
    THEN [err |-> IF IsPanic(init(all[i], <<AppName>>))
                  THEN init(all[i], <<AppName>>)
                  ELSE [msg |-> "failed to initialize command %q: %w",
                        name |-> all[i].Name, wrapped |-> init(all[i], <<AppName>>)],
          attached |-> SubSeq(all, 1, i - 1)]
    ELSE addCommandLoop(all, i + 1)

\* errors.Unwrap down to the innermost error
RECURSIVE Cause(_)
Cause(err) == IF "wrapped" \in DOMAIN err THEN Cause(err.wrapped) ELSE err

(***************************************************************************)
(* config.go: the built-in command NewApplication registers.               *)
(***************************************************************************)
configCommand ==
    Branch("config", <<>>,
        << Cmd("set", <<>>, "title", "ok", "nil", <<>>,
               <<[Name |-> "key", Repeatable |-> FALSE],
                 [Name |-> "value", Repeatable |-> FALSE]>>, NotDeprecated),
           Cmd("get", <<>>, "title", "ok", "nil", <<>>,
               <<[Name |-> "key", Repeatable |-> TRUE]>>, NotDeprecated),
           Cmd("list", <<>>, "title", "ok", "nil", <<>>, <<>>, NotDeprecated),
           Cmd("unset", <<>>, "title", "ok", "nil", <<>>,
               <<[Name |-> "key", Repeatable |-> TRUE]>>, NotDeprecated) >>)

(***************************************************************************)
(* The commands an author passes to AddCommand in SpecTree.                *)
(***************************************************************************)
CmdNames == {"a", "b"}
AliasLists == {<<>>, <<"a">>, <<"c">>}
LeafCmds == {Leaf(n, al) : n \in CmdNames, al \in AliasLists}
Kids == SeqsUpTo(LeafCmds, MaxKids) \ {<<>>}
BranchCmds == {Branch(n, <<>>, kids) : n \in {"a", "g"}, kids \in Kids}
DeepCmds == {Branch("g", <<>>, <<Branch("h", <<"c">>, kids)>>) : kids \in Kids}
\* declarations validate rejects
BothCmds == {Cmd("a", <<>>, "title", "ok", "nil", <<l>>, <<>>, NotDeprecated) : l \in LeafCmds}
NeitherCmds == {Cmd(n, al, "title", "nil", "nil", <<>>, <<>>, NotDeprecated) :
                  n \in CmdNames, al \in AliasLists}
BadNameCmds == {Cmd(n, <<>>, t, rf, "nil", <<>>, <<>>, NotDeprecated) :
                  n \in {"", " ", "a b", "a"}, t \in {"title", "", TwoLineTitle},
                  rf \in {"ok", "nil"}}
NestedInvalidCmds == {Branch("g", <<>>, <<c, Leaf("b", <<>>)>>) :
                        c \in BothCmds \cup NeitherCmds}
\* commands declaring arguments, at the top level and nested
ArgLists == SeqsUpTo(ArgumentSet, MaxCmdArgs) \ {<<>>}
ArgCmds == {[Leaf("b", <<>>) EXCEPT !.Args = al] : al \in ArgLists}
NestedArgCmds == {Branch("g", <<>>, <<c>>) : c \in ArgCmds}
TopCmds == LeafCmds \cup BranchCmds \cup DeepCmds \cup BothCmds \cup NeitherCmds
           \cup BadNameCmds \cup NestedInvalidCmds \cup ArgCmds \cup NestedArgCmds
FirstBatches == {<<c>> : c \in TopCmds}
                \cup {<<c, l>> : c \in TopCmds, l \in LeafCmds}
                \cup {<<l, c>> : l \in LeafCmds, c \in TopCmds}
LaterBatches == {<<l>> : l \in LeafCmds \cup {Leaf("config", <<>>)}}

(***************************************************************************)
(* Deprecation markers (deprecated.go).  A marker holds a replacementFunc; *)
(* kind "none" is the nil function of DeprecatedWithoutReplacement.        *)
(***************************************************************************)
DeprecatedWithReplacement(list) == [kind |-> "static", list |-> list]
DeprecatedWithReplacementFunc(fn) == [kind |-> "func", fn |-> fn]
DeprecatedWithoutReplacement == [kind |-> "none"]

\* the replacement functions authors pass in SpecRun: "forward" sends the
\* bound arguments on to the command new, "empty" returns no tokens
replacementFunc(dep, args) ==
    IF dep.kind = "static" THEN dep.list
    ELSE IF dep.fn = "forward" THEN <<"new">> \o All(args)
    ELSE <<>>

\* DeprecatedCommandError.Error: the message and the quoted, joined tokens
DeprecatedError(e) ==
    IF Len(e.Replacement) > 0
    THEN [msg |-> "the command is deprecated, please use %q instead", q |-> e.Replacement]
    ELSE [msg |-> "the command is deprecated"]

IsDeprecatedCommandError(err) == "ExecuteReplacement" \in DOMAIN err

(***************************************************************************)
(* cobra: resolution of argv against the tree (Command.Find), flag         *)
(* parsing, the persistent pre-run hooks and RunE.                         *)
(***************************************************************************)
NoColorsFlag == "--no-colors"
IsFlag(tok) == tok = NoColorsFlag
stripFlags(args) == SelectSeq(args, LAMBDA t : ~IsFlag(t))

findNextNameOnly(children, next) ==
    LET hits == {i \in 1..Len(children) : children[i].Name = next}
    IN IF hits = {} THEN 0 ELSE CHOOSE i \in hits : \A j \in hits : i <= j

\* index of the first child whose name or alias is next, 0 if none
findNext(children, next) ==
    LET hits == {i \in 1..Len(children) :
                   \/ children[i].Name = next
                   \/ \E k \in 1..Len(children[i].Aliases) : children[i].Aliases[k] = next}
    IN IF hits = {} THEN 0 ELSE CHOOSE i \in hits : \A j \in hits : i <= j

argsMinusFirstX(args, x) ==
    LET i == CHOOSE k \in 1..Len(args) : args[k] = x /\ \A j \in 1..(k - 1) : args[j] # x
    IN SubSeq(args, 1, i - 1) \o SubSeq(args, i + 1, Len(args))

\* the root cobra command: no Args, no RunE, the added commands as children
rootCommand(children) ==
    Cmd(AppName, <<>>, "title", "nil", "nil", children, <<>>, NotDeprecated)

\* Command.Find: chain holds the commands matched so far, the root first
RECURSIVE innerfind(_, _)
innerfind(chain, innerArgs) ==
    LET c == chain[Len(chain)]
        argsWOflags == stripFlags(innerArgs)
        i == IF argsWOflags = <<>> THEN 0 ELSE findNext(c.SubCommands, argsWOflags[1])
    IN IF i = 0 THEN [chain |-> chain, args |-> innerArgs]
       ELSE innerfind(Append(chain, c.SubCommands[i]),
                      argsMinusFirstX(innerArgs, argsWOflags[1]))

CommandPath(chain) == [i \in 1..Len(chain) |-> chain[i].Name]

UnknownCommand(token, path) ==
    [msg |-> "unknown command %q for %q", token |-> token, path |-> path]

\* pflag: a boolean flag given on the command line is set and marked changed
ParseFlags(args, flag) ==
    IF \E i \in 1..Len(args) : args[i] = NoColorsFlag
    THEN [value |-> TRUE, changed |-> TRUE]
    ELSE flag

\* the installed ValidateFunc with its two stages swapped
ValidateFuncUserFirst(c, args) ==
    IF c.ValidateFunc = "fail"
    THEN [msg |-> "input validation failed: %v", v |-> "rejected"]
    ELSE validationFunc(c.Args, newArguments(c.Args, args))

\* the ValidateFunc validateArgs installs: the count check, then the user's
ValidateFuncOf(c, args) ==
    IF validationFunc(c.Args, newArguments(c.Args, args)) # Nil
    THEN validationFunc(c.Args, newArguments(c.Args, args))
    ELSE IF c.ValidateFunc = "fail"
    THEN [msg |-> "input validation failed: %v", v |-> "rejected"]
    ELSE Nil

\* the PersistentPreRunE of every command of the chain below the root, the
\* outermost first, each given the resolved command's arguments
RECURSIVE PersistentPreRunE(_, _, _)
PersistentPreRunE(chain, i, args) ==
    IF i > Len(chain) THEN Nil
    ELSE IF ValidateFuncOf(chain[i], args) # Nil THEN ValidateFuncOf(chain[i], args)
    ELSE PersistentPreRunE(chain, i + 1, args)

\* the calls of user-supplied ValidateFuncs the hooks of chain make from the
\* i-th command on: each after the command's count check, none after a
\* hook that returned an error
RECURSIVE UserValidateCalls(_, _, _)
UserValidateCalls(chain, i, args) ==
    IF i > Len(chain) THEN <<>>
    ELSE IF validationFunc(chain[i].Args, newArguments(chain[i].Args, args)) # Nil THEN <<>>
    ELSE IF chain[i].ValidateFunc = "nil" THEN UserValidateCalls(chain, i + 1, args)
    ELSE <<[fn |-> "ValidateFunc", Args |-> chain[i].Args, args |-> args]>>
         \o (IF ValidateFuncOf(chain[i], args) # Nil THEN <<>>
             ELSE UserValidateCalls(chain, i + 1, args))

\* cobraRun of a command without RunFunc: any argument is an unknown command
noArgsOrHelp(path, args) ==
    [err |-> IF Len(args) > 0
             THEN [msg |-> "%w Usage: %s <command> [flags] ...",
                   wrapped |-> UnknownCommand(args[1], path)]
             ELSE Nil,
     body |-> <<>>]

\* the call of c.RunFunc: the body sees its arguments and the flag structs
runFunc(c, path, args, flag) ==
    [err |-> IF c.RunFunc = "fail" THEN [msg |-> "body failed"] ELSE Nil,
     body |-> <<[path |-> path, args |-> args, noColors |-> flag.value]>>]

cobraRunIgnoresMarker(c, path, args, flag, shared, choice) ==
    IF c.RunFunc = "nil" THEN noArgsOrHelp(path, args) ELSE runFunc(c, path, args, flag)

\* cobraRun: a branch rejects any argument and prints help otherwise; a leaf
\* raises the deprecation signal when it carries a marker and runs RunFunc
\* otherwise.  shared is the Replacement of the shared sentinel, choice the
\* user's answer to the offer to run the replacement.
cobraRun(c, path, args, flag, shared, choice) ==
    IF c.RunFunc = "nil" THEN noArgsOrHelp(path, args)
    ELSE IF c.Deprecated.kind = "none"
    THEN [err |-> [Replacement |-> shared, ExecuteReplacement |-> FALSE, shared |-> TRUE],
          body |-> <<>>]
    ELSE IF c.Deprecated.kind # "nil"
    THEN [err |-> [Replacement |-> replacementFunc(c.Deprecated, newArguments(c.Args, args)),
                   ExecuteReplacement |-> choice, shared |-> FALSE],
          body |-> <<>>]
    ELSE runFunc(c, path, args, flag)

\* the root command's PersistentPreRunE: the built-in global flags, then
\* every struct of a.additionalGlobalFlags
rootSyncBuiltInOnly(additional) == <<"GlobalFlags">>

rootSync(additional) == <<"GlobalFlags">> \o additional

\* the reconciliation of the StickyFlags of the commands of chain from the
\* i-th on, the outermost first
RECURSIVE stickySync(_, _)
stickySync(chain, i) ==
    IF i > Len(chain) THEN <<>>
    ELSE (IF chain[i].StickyFlags = "nil" THEN <<>> ELSE <<chain[i].StickyFlags>>)
         \o stickySync(chain, i + 1)

\* the flag structs reconciled before the resolved command is dispatched
reconcile(chain, additional) == rootSync(additional) \o stickySync(chain, 2)

\* Command.ExecuteContextC on the root command
ExecuteContextC(children, args, flag, shared, choice) ==
    LET f == innerfind(<<rootCommand(children)>>, args)
        c == f.chain[Len(f.chain)]
        path == CommandPath(f.chain)
        argWoFlags == stripFlags(f.args)
        parsed == ParseFlags(f.args, flag)
        hook == PersistentPreRunE(f.chain, 2, argWoFlags)
        ran == cobraRun(c, path, argWoFlags, parsed, shared, choice)
    IN IF Len(f.chain) = 1
       THEN \* legacyArgsValidation on the root, or help for the bare root
            IF Len(argWoFlags) > 0
            THEN [cmd |-> path, c |-> c, args |-> argWoFlags, stage |-> "find",
                  err |-> UnknownCommand(argWoFlags[1], path), body |-> <<>>, flag |-> flag]
            ELSE [cmd |-> path, c |-> c, args |-> argWoFlags, stage |-> "help",
                  err |-> Nil, body |-> <<>>, flag |-> parsed]
       ELSE IF hook # Nil
       THEN [cmd |-> path, c |-> c, args |-> argWoFlags, stage |-> "hooks",
             err |-> hook, body |-> <<>>, flag |-> parsed]
       ELSE [cmd |-> path, c |-> c, args |-> argWoFlags, stage |-> "run",
             err |-> ran.err, body |-> ran.body, flag |-> parsed]

\* what Run returns once ExecuteContextC returned r and Run does not redirect
Redirects(r) ==
    /\ IsDeprecatedCommandError(r.err)
    /\ Len(r.err.Replacement) > 0
    /\ r.err.ExecuteReplacement

\* Run wrapping the error of a body in a message of its own
RunReturnsWrapped(r) ==
    IF IsDeprecatedCommandError(r.err)
    THEN [r.err EXCEPT !.Replacement = <<AppName>> \o @]
    ELSE IF r.err = Nil THEN Nil
    ELSE [msg |-> "command failed: %w", wrapped |-> r.err]

RunReturns(r) ==
    IF IsDeprecatedCommandError(r.err)
    THEN [r.err EXCEPT !.Replacement = <<AppName>> \o @]
    ELSE r.err

(***************************************************************************)
(* The applications of SpecRun: each a list of commands passed to one      *)
(* AddCommand call.                                                        *)
(***************************************************************************)
ArgX == [Name |-> "x", Repeatable |-> FALSE]
ArgXs == [Name |-> "x", Repeatable |-> TRUE]
NewCmd(rf) == Cmd("new", <<"n">>, "title", rf, "nil", <<>>, <<ArgX>>, NotDeprecated)
OldCmd(args, deprecated) == Cmd("old", <<>>, "title", "ok", "nil", <<>>, args, deprecated)
\* sticky flags declared at depth one and two above a leaf, next to a
\* sibling without any
StickyCmd ==
    [Branch("grp", <<>>,
        << [Branch("sub", <<>>, <<Leaf("run", <<>>)>>) EXCEPT !.StickyFlags = "subFlags"],
           Leaf("new", <<>>) >>)
     EXCEPT !.StickyFlags = "grpFlags"]

\* a leaf with one argument and a user-supplied ValidateFunc
ChkCmd(name, validateFunc) ==
    Cmd(name, <<>>, "title", "ok", validateFunc, <<>>, <<ArgX>>, NotDeprecated)
GrpCmd(validateFunc) ==
    Cmd("grp", <<"g">>, "title", "nil", "nil",
        << Cmd("sub", <<>>, "title", "nil", validateFunc,
               <<Cmd("run", <<>>, "title", "ok", "nil", <<>>, <<>>, NotDeprecated)>>,
               <<>>, NotDeprecated),
           OldCmd(<<>>, DeprecatedWithReplacement(<<"grp", "sub", "run">>)) >>,
        <<>>, NotDeprecated)

RunTrees ==
    { << OldCmd(<<>>, DeprecatedWithReplacement(<<"new", "t1">>)), NewCmd("ok") >>,
      << OldCmd(<<ArgXs>>, DeprecatedWithReplacementFunc("forward")), NewCmd("ok") >>,
      << OldCmd(<<>>, DeprecatedWithoutReplacement), NewCmd("fail") >>,
      << OldCmd(<<>>, DeprecatedWithReplacement(<<"new", "t1">>)), NewCmd("fail") >>,
      << OldCmd(<<>>, DeprecatedWithReplacementFunc("empty")), NewCmd("ok") >>,
      << OldCmd(<<>>, DeprecatedWithReplacement(<<"old">>)) >>,
      << OldCmd(<<>>, DeprecatedWithReplacement(<<"mid">>)),
         Cmd("mid", <<>>, "title", "ok", "nil", <<>>, <<>>,
             DeprecatedWithReplacement(<<"old", NoColorsFlag>>)) >>,
      << GrpCmd("nil") >>,
      << GrpCmd("fail") >>,
      << ChkCmd("new", "fail"), ChkCmd("chk", "ok") >>,
      << Cmd("chk", <<>>, "title", "ok", "ok", <<>>,
             <<ArgX, [Name |-> "y", Repeatable |-> TRUE]>>, NotDeprecated) >>,
      << StickyCmd >> }

\* every name and alias declared in cmds, at any depth
RECURSIVE NamesIn(_)
NamesIn(cmds) ==
    UNION {{cmds[i].Name} \cup {cmds[i].Aliases[k] : k \in 1..Len(cmds[i].Aliases)}
           \cup NamesIn(cmds[i].SubCommands) : i \in 1..Len(cmds)}

\* the argv a user types against an application built from tree
ArgvOf(tree) == SeqsUpTo(NamesIn(tree) \cup {"t1", NoColorsFlag}, MaxArgv)
\* the argv of a second and later Run on the same application
Reruns == {<<"old">>, <<"new", "t1">>, <<"grp", "t1">>}

(***************************************************************************)
(* Flag values: the kinds setupFlag registers, the text forms pflag, viper *)
(* and cast convert between, over the values used in SpecFlags.  Durations *)
(* are in seconds.                                                         *)
(***************************************************************************)
Kinds == {"string", "bool", "int", "uint", "duration", "strings"}

\* strconv.ParseBool as cast.ToBool and pflag apply it; false on error
ParseBool(s) == s \in {"true", "1", "t", "T", "TRUE", "True"}
\* strconv.ParseInt / ParseUint; 0 on error
ParseInt(s) ==
    CASE s = "2" -> 2 [] s = "-1" -> 0 - 1 [] s = "7" -> 7 [] s = "0" -> 0 [] OTHER -> 0
ParseUint(s) ==
    CASE s = "2" -> 2 [] s = "7" -> 7 [] s = "0" -> 0 [] OTHER -> 0
\* time.ParseDuration; 0 on error
ParseDuration(s) ==
    CASE s = "1s" -> 1 [] s = "5s" -> 5 [] s = "90s" -> 90 [] s = "1m30s" -> 90
      [] s = "0s" -> 0 [] OTHER -> 0
\* encoding/csv as pflag's stringSlice and viper read it
readAsCSV(s) ==
    CASE s = "" -> <<>> [] s = "a" -> <<"a">> [] s = "d" -> <<"d">>
      [] s = "a,b" -> <<"a", "b">> [] s = "a b" -> <<"a b">> [] OTHER -> <<s>>
\* strings.Fields as cast.ToStringSlice applies it to a string
Fields(s) ==
    CASE s = "" -> <<>> [] s = "a" -> <<"a">> [] s = "d" -> <<"d">>
      [] s = "a,b" -> <<"a,b">> [] s = "a b" -> <<"a", "b">> [] OTHER -> <<s>>

FormatBool(b) == IF b THEN "true" ELSE "false"
FormatInt(n) ==
    CASE n = 2 -> "2" [] n = 0 - 1 -> "-1" [] n = 7 -> "7" [] n = 0 -> "0"
\* time.Duration.String
FormatDuration(d) ==
    CASE d = 0 -> "0s" [] d = 1 -> "1s" [] d = 5 -> "5s" [] d = 90 -> "1m30s"
writeAsCSV(v) ==
    CASE v = <<>> -> "" [] v = <<"a">> -> "a" [] v = <<"d">> -> "d"
      [] v = <<"a", "b">> -> "a,b"

\* pflag Value.Set: the text given on the command line to the typed value
pflagSet(kind, text) ==
    CASE kind = "string" -> text
      [] kind = "bool" -> ParseBool(text)
      [] kind = "int" -> ParseInt(text)
      [] kind = "uint" -> ParseUint(text)
      [] kind = "duration" -> ParseDuration(text)
      [] kind = "strings" -> readAsCSV(text)

\* pflag Value.String
ValueString(kind, v) ==
    CASE kind = "string" -> v
      [] kind = "bool" -> FormatBool(v)
      [] kind = "int" -> FormatInt(v)
      [] kind = "uint" -> FormatInt(v)
      [] kind = "duration" -> FormatDuration(v)
      [] kind = "strings" ->
           (CASE writeAsCSV(v) = "" -> "[]" [] writeAsCSV(v) = "a" -> "[a]"
              [] writeAsCSV(v) = "d" -> "[d]" [] writeAsCSV(v) = "a,b" -> "[a,b]")

TrimBrackets(s) ==
    CASE s = "[]" -> "" [] s = "[a]" -> "a" [] s = "[d]" -> "d" [] s = "[a,b]" -> "a,b"
      [] OTHER -> s

\* viper's value of a changed pflag, by the flag's ValueType
viperFlagValue(kind, flag) ==
    CASE kind = "int" -> [t |-> "int", v |-> ParseInt(ValueString(kind, flag.value))]
      [] kind = "bool" -> [t |-> "bool", v |-> ParseBool(ValueString(kind, flag.value))]
      [] kind = "strings" ->
           [t |-> "strings", v |-> readAsCSV(TrimBrackets(ValueString(kind, flag.value)))]
      [] OTHER -> [t |-> "string", v |-> ValueString(kind, flag.value)]

NoValue == [t |-> "nil"]

\* viper.find with env before file: file first is not what viper does
viperFindFileFirst(kind, flag, env, file) ==
    IF flag.changed THEN viperFlagValue(kind, flag)
    ELSE IF file.set THEN [t |-> file.t, v |-> file.v]
    ELSE IF env.set /\ env.text # "" THEN [t |-> "string", v |-> env.text]
    ELSE NoValue

\* viper.find(key, false): a changed pflag, then the environment variable
\* (AutomaticEnv; an empty variable counts as unset), then the file
viperFind(kind, flag, env, file) ==
    IF flag.changed THEN viperFlagValue(kind, flag)
    ELSE IF env.set /\ env.text # "" THEN [t |-> "string", v |-> env.text]
    ELSE IF file.set THEN [t |-> file.t, v |-> file.v]
    ELSE NoValue

IsSet(kind, flag, env, file) == viperFind(kind, flag, env, file) # NoValue

\* setValue: config.GetString, GetBool, GetInt, GetUint, GetDuration,
\* GetStringSlice by the field's kind, each a cast of the found value
setValue(kind, val) ==
    CASE kind = "string" ->
           (CASE val.t = "string" -> val.v [] val.t = "bool" -> FormatBool(val.v)
              [] val.t = "int" -> FormatInt(val.v) [] OTHER -> "")
      [] kind = "bool" ->
           (CASE val.t = "bool" -> val.v [] val.t = "string" -> ParseBool(val.v)
              [] val.t = "int" -> val.v # 0 [] OTHER -> FALSE)
      [] kind = "int" ->
           (CASE val.t = "int" -> val.v [] val.t = "string" -> ParseInt(val.v)
              [] val.t = "bool" -> (IF val.v THEN 1 ELSE 0) [] OTHER -> 0)
      [] kind = "uint" ->
           (CASE val.t = "int" -> (IF val.v < 0 THEN 0 ELSE val.v)
              [] val.t = "string" -> ParseUint(val.v)
              [] val.t = "bool" -> (IF val.v THEN 1 ELSE 0) [] OTHER -> 0)
      [] kind = "duration" ->
           (CASE val.t = "string" -> ParseDuration(val.v) [] OTHER -> 0)
      [] kind = "strings" ->
           (CASE val.t = "strings" -> val.v [] val.t = "string" -> Fields(val.v)
              [] OTHER -> <<>>)

\* the values of SpecFlags, per kind: defaults, command-line texts,
\* environment texts and file values (as the YAML decoder types them)
DefaultsOf(kind) ==
    CASE kind = "string" -> {"", "d"} [] kind = "bool" -> {FALSE, TRUE}
      [] kind = "int" -> {0, 7} [] kind = "uint" -> {0, 7}
      [] kind = "duration" -> {0, 5} [] kind = "strings" -> {<<>>, <<"d">>}
CliTextsOf(kind) ==
    CASE kind = "string" -> {"", "a"} [] kind = "bool" -> {"true", "false"}
      [] kind = "int" -> {"2", "-1"} [] kind = "uint" -> {"2", "0"}
      [] kind = "duration" -> {"90s", "1s"} [] kind = "strings" -> {"a,b", "a"}
EnvTextsOf(kind) ==
    CASE kind = "string" -> {"", "a b"} [] kind = "bool" -> {"", "true", "false"}
      [] kind = "int" -> {"", "2"} [] kind = "uint" -> {"", "2"}
      [] kind = "duration" -> {"", "1s"} [] kind = "strings" -> {"", "a b", "a"}
FileValuesOf(kind) ==
    CASE kind = "string" -> {[t |-> "string", v |-> "a"]}
      [] kind = "bool" -> {[t |-> "bool", v |-> TRUE], [t |-> "bool", v |-> FALSE]}
      [] kind = "int" -> {[t |-> "int", v |-> 2], [t |-> "int", v |-> 0 - 1]}
      [] kind = "uint" -> {[t |-> "int", v |-> 2]}
      [] kind = "duration" -> {[t |-> "string", v |-> "90s"]}
      [] kind = "strings" -> {[t |-> "strings", v |-> <<"a", "b">>],
                              [t |-> "strings", v |-> <<>>]}

(***************************************************************************)
(* SpecArgs: the argument binder and the built-in count check on every     *)
(* declaration and token list within the bounds.                           *)
(***************************************************************************)
ArgsIdle ==
    /\ aSpecs = <<>> /\ aTokens = <<>> /\ aBound = <<>>
    /\ aCheck = [init |-> Nil, count |-> Nil] /\ aAll = <<>> /\ aPc = "idle"
    /\ aGet = [fn |-> "none"]

\* NewApplication: the built-in config command is registered.
NewApplication ==
    /\ commands = <<configCommand>>
    /\ rootChildren = <<configCommand>>
    /\ addErr = Nil
    /\ addCalls = 0
    /\ lastBatch = <<>>
    /\ additionalGlobalFlags = <<>>

\* No flag is followed (every specification but SpecFlags).
FlagIdle ==
    /\ fKind = "none" /\ fDefault = "none" /\ fFile = [set |-> FALSE]
    /\ fEnv = [set |-> FALSE] /\ fCli = [set |-> FALSE] /\ fField = "none"
    /\ fPflag = [changed |-> FALSE] /\ fSeen = "none" /\ fPc = "idle"

\* No flags value has been registered by the author.
RegIdle ==
    /\ rootFlags = setupFlags(GlobalFlags, <<>>).scope
    /\ regBefore = <<>> /\ regLast = "nil" /\ regOut = Nil /\ regCalls = 0

\* No run against a configuration file is followed (every specification but
\* SpecConfig): the file does not exist.
CfgIdle ==
    /\ cfgFile = [state |-> "missing", settings |-> <<>>]
    /\ cfgBefore = [state |-> "missing", settings |-> <<>>]
    /\ cfgArgv = <<>> /\ cfgOut = <<>> /\ cfgErr = Nil /\ cfgBodies = <<>>
    /\ cfgWrites = 0
    /\ cfgPrev = [argv |-> <<>>, err |-> Nil, out |-> <<>>]

\* The application was built with valid arguments (every specification but
\* SpecNew).
NewIdle ==
    /\ nName = <<"a">> /\ nTitle = <<"a">> /\ nVersion = <<"a">>
    /\ nErr = Nil /\ nPc = "returned"

\* No Run has been called yet.
NoRun ==
    /\ rPc = "ready" /\ runs = 0 /\ argv = <<>> /\ runErr = Nil
    /\ executedCommand = <<>> /\ bodies = <<>>
    /\ noColors = [value |-> FALSE, changed |-> FALSE]
    /\ sentinel = <<>>
    /\ hops = 0 /\ visited = {}
    /\ lastExec = [stage |-> "none"]
    /\ start = [flag |-> [value |-> FALSE, changed |-> FALSE], sentinel |-> <<>>,
                firstR |-> <<>>]
    /\ reconciled = <<>>
    /\ prevRun = [argv |-> <<>>, err |-> Nil]

ArgsInit ==
    /\ aSpecs \in SeqsUpTo(ArgumentSet, MaxSpecs)
    /\ aTokens \in SeqsUpTo(Tokens, MaxTokens)
    /\ aBound = <<>>
    /\ aCheck = [init |-> Nil, count |-> Nil]
    /\ aAll = <<>>
    /\ aGet = [fn |-> "none"]
    /\ aPc = "new"
    /\ NewApplication
    /\ NoRun
    /\ FlagIdle
    /\ RegIdle /\ CfgIdle /\ NewIdle

\* newArguments(c.Args, args)
ArgsBind ==
    /\ aPc = "new"
    /\ aBound' = newArguments(aSpecs, aTokens)
    /\ aPc' = "bound"
    /\ UNCHANGED <<aSpecs, aTokens, aCheck, aAll, aGet>>

\* The count validator installed by validateArgs, called with the bound
\* arguments; a declaration validateArgs rejects installs none.
ArgsCheck ==
    /\ aPc = "bound"
    /\ aCheck' = [init |-> validateArgs(aSpecs),
                  count |-> IF validateArgs(aSpecs) = Nil
                            THEN validationFunc(aSpecs, aBound) ELSE Nil]
    /\ aPc' = "checked"
    /\ UNCHANGED <<aSpecs, aTokens, aBound, aAll, aGet>>

\* args.All()
ArgsAll ==
    /\ aPc = "checked"
    /\ aAll' = All(aBound)
    /\ aPc' = "done"
    /\ UNCHANGED <<aSpecs, aTokens, aBound, aCheck, aGet>>

\* args.Get(name) in a command body or ValidateFunc
ArgsGet ==
    /\ aPc = "done"
    /\ \E name \in ArgNames :
         aGet' = [fn |-> "Get", name |-> name, out |-> Get(aBound, name)]
    /\ aPc' = "got"
    /\ UNCHANGED <<aSpecs, aTokens, aBound, aCheck, aAll>>

\* args.GetRepeatable(name) in a command body or ValidateFunc
ArgsGetRepeatable ==
    /\ aPc = "done"
    /\ \E name \in ArgNames :
         aGet' = [fn |-> "GetRepeatable", name |-> name, out |-> GetRepeatable(aBound, name)]
    /\ aPc' = "got"
    /\ UNCHANGED <<aSpecs, aTokens, aBound, aCheck, aAll>>

ArgsNext ==
    (ArgsBind \/ ArgsCheck \/ ArgsAll \/ ArgsGet \/ ArgsGetRepeatable)
    /\ UNCHANGED <<treeVars, runVars, flagVars, regVars, cfgVars, newVars>>

SpecArgs == ArgsInit /\ [][ArgsNext]_vars

(***************************************************************************)
(* Claims settled under SpecArgs.                                          *)
(***************************************************************************)
(***************************************************************************)
(* SpecTree: an author builds an application with AddCommand calls.        *)
(***************************************************************************)
TreeInit ==
    ArgsIdle /\ NewApplication /\ NoRun /\ FlagIdle /\ RegIdle /\ CfgIdle /\ NewIdle

\* Application.AddCommand called with one of the given lists of commands
AddCommandOf(batches) ==
    /\ addCalls < MaxAddCalls
    /\ \E all \in batches :
         /\ commands' = commands \o all
         /\ rootChildren' = rootChildren \o addCommandLoop(all, 1).attached
         /\ addErr' = addCommandLoop(all, 1).err
         /\ lastBatch' = all
    /\ addCalls' = addCalls + 1
    /\ UNCHANGED <<argVars, runVars, flagVars, regVars, cfgVars, newVars>>

AddCommand == AddCommandOf(IF addCalls = 0 THEN FirstBatches ELSE LaterBatches)

TreeNext == AddCommand

SpecTree == TreeInit /\ [][TreeNext]_vars

(***************************************************************************)
(* SpecRun: a user runs an application built by NewApplication and one     *)
(* AddCommand call, or by NewApplication alone.  No configuration file and  *)
(* no environment variable exists in this specification.                   *)
(***************************************************************************)
RunInit ==
    /\ ArgsIdle
    /\ \E tree \in RunTrees \cup {<<>>} :
         /\ commands = <<configCommand>> \o tree
         /\ rootChildren = <<configCommand>> \o addCommandLoop(tree, 1).attached
         /\ addErr = addCommandLoop(tree, 1).err
         /\ lastBatch = tree
    /\ addCalls = (IF lastBatch = <<>> THEN 0 ELSE 1)
    /\ NoRun
    /\ FlagIdle
    /\ RegIdle /\ CfgIdle /\ NewIdle
    /\ additionalGlobalFlags \in {<<>>, <<"extra">>}

\* Application.Run up to the for loop
Run ==
    /\ rPc \in {"ready", "returned"}
    /\ runs < MaxRuns
    /\ argv' \in (IF runs = 0 THEN ArgvOf(lastBatch) ELSE Reruns)
    /\ rPc' = "loop"
    /\ runs' = runs + 1
    /\ runErr' = Nil
    /\ bodies' = <<>>
    /\ hops' = 0
    /\ visited' = {}
    /\ lastExec' = [stage |-> "none"]
    /\ start' = [flag |-> noColors, sentinel |-> sentinel, firstR |-> <<>>]
    /\ reconciled' = <<>>
    /\ prevRun' = [argv |-> argv, err |-> runErr]
    /\ UNCHANGED <<executedCommand, noColors, sentinel, argVars, treeVars, flagVars,
                   regVars, cfgVars, newVars>>

\* one iteration of Run's for loop: ExecuteContextC, then return or redirect
RunLoop ==
    /\ rPc = "loop"
    /\ \E choice \in BOOLEAN :
         LET r == ExecuteContextC(rootChildren, argv, noColors, sentinel, choice)
         IN /\ executedCommand' = r.cmd
            /\ noColors' = r.flag
            /\ bodies' = bodies \o r.body
            /\ lastExec' = r
            /\ reconciled' = IF r.stage \in {"hooks", "run"}
                              THEN reconcile(
                                       innerfind(<<rootCommand(rootChildren)>>, argv).chain,
                                       additionalGlobalFlags)
                              ELSE <<>>
            /\ IF Redirects(r)
               THEN /\ hops < MaxHops
                    /\ argv' = r.err.Replacement
                    /\ hops' = hops + 1
                    /\ visited' = visited \cup {r.cmd}
                    /\ start' = IF hops = 0 THEN [start EXCEPT !.firstR = r.err.Replacement]
                                ELSE start
                    /\ UNCHANGED <<rPc, runErr, sentinel>>
               ELSE /\ rPc' = "returned"
                    /\ runErr' = RunReturns(r)
                    /\ sentinel' = IF IsDeprecatedCommandError(r.err) /\ r.err.shared
                                   THEN <<AppName>> \o r.err.Replacement
                                   ELSE sentinel
                    /\ UNCHANGED <<argv, hops, visited, start>>
    /\ UNCHANGED <<runs, prevRun, argVars, treeVars, flagVars, regVars, cfgVars, newVars>>

RunNext == Run \/ RunLoop

SpecRun == RunInit /\ [][RunNext]_vars

(***************************************************************************)
(* SpecReg: the author registers flags values: with AddGlobalFlags on the  *)
(* root command's persistent flags, and as the Flags or StickyFlags of a   *)
(* command passed to AddCommand.                                           *)
(***************************************************************************)
\* the flags values of a second and later AddGlobalFlags call
LaterFlagsIds == {"quiet", "verbose", "config", "create", "hidden", "shortDup"}

\* one command, at the top level or nested, holding a flags value
FlagBatches ==
    {<<[Leaf("a", <<>>) EXCEPT !.Flags = id]>> : id \in FlagsIds}
    \cup {<<[Leaf("a", <<>>) EXCEPT !.StickyFlags = id]>> : id \in FlagsIds}
    \cup {<<Branch("g", <<>>, <<[Leaf("a", <<>>) EXCEPT !.Flags = id]>>)>> :
             id \in {"quiet", "shortQu", "flagMap", "foobar"}}

RegInit ==
    ArgsIdle /\ NewApplication /\ NoRun /\ FlagIdle /\ RegIdle /\ CfgIdle /\ NewIdle

\* Application.AddGlobalFlags(flags)
AddGlobalFlagsCall ==
    /\ regCalls < MaxRegCalls
    /\ ~IsPanic(regOut)
    /\ \E id \in (IF regCalls = 0 THEN FlagsIds ELSE LaterFlagsIds) :
         LET r == setupFlags(FlagsOf(id), rootFlags)
         IN /\ rootFlags' = r.scope
            /\ regOut' = IF r.err = Nil \/ IsPanic(r.err) THEN r.err
                          ELSE [msg |-> "failed to setup global flags: %w", wrapped |-> r.err]
            /\ additionalGlobalFlags' = IF r.err = Nil
                                         THEN Append(additionalGlobalFlags, id)
                                         ELSE additionalGlobalFlags
            /\ regLast' = id
    /\ regBefore' = rootFlags
    /\ regCalls' = regCalls + 1
    /\ UNCHANGED <<argVars, treeVars, runVars, cfgVars, newVars>>
    /\ UNCHANGED <<fKind, fDefault, fFile, fEnv, fCli, fField, fPflag, fSeen, fPc>>

\* Application.AddCommand with a command that declares flags
AddCommandWithFlags == addCalls = 0 /\ AddCommandOf(FlagBatches)

RegNext == AddGlobalFlagsCall \/ AddCommandWithFlags

SpecReg == RegInit /\ [][RegNext]_vars

(***************************************************************************)
(* SpecFlags: one global flag of each kind through one Run: AddGlobalFlags *)
(* registers it, cobra parses the command line, the root command's         *)
(* PersistentPreRunE reconciles, the body reads the field.                 *)
(***************************************************************************)
FlagInit ==
    /\ ArgsIdle /\ NewApplication /\ NoRun /\ RegIdle /\ CfgIdle /\ NewIdle
    /\ fKind \in Kinds
    /\ fDefault \in DefaultsOf(fKind)
    /\ fFile \in {[set |-> FALSE]}
                 \cup {[set |-> TRUE, t |-> f.t, v |-> f.v] : f \in FileValuesOf(fKind)}
    /\ fEnv \in {[set |-> FALSE]} \cup {[set |-> TRUE, text |-> e] : e \in EnvTextsOf(fKind)}
    /\ fCli \in {[set |-> FALSE]} \cup {[set |-> TRUE, text |-> c] : c \in CliTextsOf(fKind)}
    /\ fField = fDefault
    /\ fPflag = [changed |-> FALSE]
    /\ fSeen = "none"
    /\ fPc = "declared"

\* AddGlobalFlags -> setupFlags -> setupFlag(unwrap(&field)): the pflag's
\* default is the field's current value
AddGlobalFlags ==
    /\ fPc = "declared"
    /\ fPflag' = [value |-> fField, changed |-> FALSE]
    /\ additionalGlobalFlags' = Append(additionalGlobalFlags, "flags")
    /\ rootFlags' = setupFlags(FlagsOf("flags"), rootFlags).scope
    /\ fPc' = "registered"
    /\ UNCHANGED <<fKind, fDefault, fFile, fEnv, fCli, fField, fSeen>>

\* cobra's ParseFlags: pflag writes through the registered pointer, which
\* for a string sequence is the copy unwrap made, not the field
FlagParse ==
    /\ fPc = "registered"
    /\ IF fCli.set
       THEN /\ fPflag' = [value |-> pflagSet(fKind, fCli.text), changed |-> TRUE]
            /\ fField' = IF fKind = "strings" THEN fField ELSE pflagSet(fKind, fCli.text)
       ELSE UNCHANGED <<fPflag, fField>>
    /\ fPc' = "parsed"
    /\ UNCHANGED <<fKind, fDefault, fFile, fEnv, fCli, fSeen, additionalGlobalFlags,
                   rootFlags>>

\* the root PersistentPreRunE: initializeConfig (ReadInConfig, BindPFlags),
\* then syncViperToFlags
syncViperToFlags ==
    /\ fPc = "parsed"
    /\ fField' = IF IsSet(fKind, fPflag, fEnv, fFile)
                 THEN setValue(fKind, viperFind(fKind, fPflag, fEnv, fFile))
                 ELSE fField
    /\ fPc' = "synced"
    /\ UNCHANGED <<fKind, fDefault, fFile, fEnv, fCli, fPflag, fSeen, additionalGlobalFlags,
                   rootFlags>>

\* the command body reads the struct field
FlagBody ==
    /\ fPc = "synced"
    /\ fSeen' = fField
    /\ fPc' = "run"
    /\ UNCHANGED <<fKind, fDefault, fFile, fEnv, fCli, fField, fPflag, additionalGlobalFlags,
                   rootFlags>>

FlagNext ==
    (AddGlobalFlags \/ FlagParse \/ syncViperToFlags \/ FlagBody)
    /\ UNCHANGED <<argVars, treeVars, runVars, regBefore, regLast, regOut, regCalls,
                   cfgVars, newVars>>

SpecFlags == FlagInit /\ [][FlagNext]_vars

(***************************************************************************)
(* config.go: the bodies of the config commands.  The configuration file   *)
(* is [state, settings]: state "nodir" (its directory does not exist),     *)
(* "missing", "unreadable" (reading it fails with another error than "does *)
(* not exist") or "file"; settings maps the keys of the file to their      *)
(* values, <<>> for no key.  viper lower-cases the key of Set and the keys *)
(* it reads.  A body returns its error, the lines it printed, the file     *)
(* afterwards and the number of writes.                                    *)
(***************************************************************************)
Put(settings, key, value) ==
    [x \in DOMAIN settings \cup {key} |-> IF x = key THEN value ELSE settings[x]]

Del(settings, key) ==
    IF DOMAIN settings \ {key} = {} THEN <<>>
    ELSE [x \in DOMAIN settings \ {key} |-> settings[x]]

ReadError == [msg |-> "read failed"]

\* viper.ReadInConfig on a fresh viper: the error and the settings read
ReadInConfig(file) ==
    IF file.state \in {"nodir", "missing"}
    THEN [err |-> [msg |-> "file does not exist"], notExist |-> TRUE, settings |-> <<>>]
    ELSE IF file.state = "unreadable"
    THEN [err |-> ReadError, notExist |-> FALSE, settings |-> <<>>]
    ELSE [err |-> Nil, notExist |-> FALSE, settings |-> file.settings]

\* viper.WriteConfig of the settings
WriteConfig(settings) == [state |-> "file", settings |-> settings]

getSettingsFromConfigFile(file) ==
    IF ReadInConfig(file).notExist THEN [err |-> Nil, settings |-> <<>>]
    ELSE IF ReadInConfig(file).err # Nil
    THEN [err |-> [msg |-> "unable to read configuration file %q: %w",
                   wrapped |-> ReadInConfig(file).err],
          settings |-> <<>>]
    ELSE [err |-> Nil, settings |-> ReadInConfig(file).settings]

\* configSet writing the one value without reading the file first
configSetWithoutRead(file, args, choice) ==
    [err |-> Nil,
     out |-> <<[msg |-> "Set %s = %s", key |-> Get(args, "key").value,
                value |-> Get(args, "value").value],
               [msg |-> "Configuration file updated"]>>,
     file |-> WriteConfig(Put(<<>>, ToLower(Get(args, "key").value),
                              Get(args, "value").value)),
     writes |-> 1]

\* configSet.RunFunc; choice is the user's answer to the offer to create the
\* directory
configSet(file, args, choice) ==
    LET key == Get(args, "key").value
        value == Get(args, "value").value
        ask == IF file.state = "nodir"
               THEN <<[msg |-> "The directory for the configuration file (%s) does not exist, do you want to create it?"]>>
               ELSE <<>>
        set == [msg |-> "Set %s = %s", key |-> key, value |-> value]
        dir == IF file.state = "nodir" THEN [file EXCEPT !.state = "missing"] ELSE file
    IN IF file.state = "nodir" /\ ~choice
       THEN [err |-> Nil,
             out |-> ask \o <<[msg |-> "Directory creation aborted; configuration not saved"]>>,
             file |-> file, writes |-> 0]
       ELSE IF ReadInConfig(dir).err # Nil /\ ~ReadInConfig(dir).notExist
       THEN [err |-> [msg |-> "unable to read configuration file %q: %w",
                      wrapped |-> ReadInConfig(dir).err],
             out |-> ask \o <<set>>, file |-> dir, writes |-> 0]
       ELSE [err |-> Nil,
             out |-> ask \o <<set, [msg |-> "Configuration file updated"]>>,
             file |-> WriteConfig(Put(ReadInConfig(dir).settings, ToLower(key), value)),
             writes |-> 1]

\* configGet.RunFunc
configGet(file, args, choice) ==
    LET settings == getSettingsFromConfigFile(file).settings
        keys == GetRepeatable(args, "key").value
    IN IF getSettingsFromConfigFile(file).err # Nil
       THEN [err |-> [msg |-> "unable to read configuration file: %w",
                      wrapped |-> getSettingsFromConfigFile(file).err],
             out |-> <<>>, file |-> file, writes |-> 0]
       ELSE [err |-> Nil,
             out |-> [i \in 1..Len(keys) |->
                        IF keys[i] \in DOMAIN settings
                        THEN [msg |-> "%s = %v", key |-> keys[i], value |-> settings[keys[i]]]
                        ELSE [msg |-> "No such configuration key: %s, create the value using config set %s <value>",
                              key |-> keys[i]]],
             file |-> file, writes |-> 0]

\* the keys of the model in the order of sort.SliceStable
KeyRank(key) == CASE key = "j" -> 1 [] key = "k" -> 2 [] OTHER -> 3

RECURSIVE Sorted(_)
Sorted(keys) ==
    IF keys = {} THEN <<>>
    ELSE LET first == CHOOSE k \in keys : \A o \in keys : KeyRank(k) <= KeyRank(o)
         IN <<first>> \o Sorted(keys \ {first})

\* configList.RunFunc
configList(file, args, choice) ==
    LET settings == getSettingsFromConfigFile(file).settings
        keys == Sorted(DOMAIN settings)
    IN IF getSettingsFromConfigFile(file).err # Nil
       THEN [err |-> [msg |-> "unable to read configuration file: %w",
                      wrapped |-> getSettingsFromConfigFile(file).err],
             out |-> <<>>, file |-> file, writes |-> 0]
       ELSE IF DOMAIN settings = {}
       THEN [err |-> Nil,
             out |-> <<[msg |-> "The configuration file %s is empty, or it does not yet exist"],
                       [msg |-> "Use the config set <key> <value> command to set configuration values"]>>,
             file |-> file, writes |-> 0]
       ELSE [err |-> Nil,
             out |-> <<[msg |-> "The following configuration values are set in %s:"],
                       [msg |-> "table",
                        rows |-> <<<<"Key", "Value">>>>
                                 \o [i \in 1..Len(keys) |-> <<keys[i], settings[keys[i]]>>]],
                       [msg |-> "Use the config set <key> <value> command to update or create values, or the config unset <value>[, <value>] command to remove values"]>>,
             file |-> file, writes |-> 0]

\* the loop of configUnset over the keys from the i-th on
RECURSIVE unsetLoop(_, _, _, _, _)
unsetLoop(settings, keys, i, out, updated) ==
    IF i > Len(keys) THEN [settings |-> settings, out |-> out, updated |-> updated]
    ELSE IF keys[i] \notin DOMAIN settings
    THEN unsetLoop(settings, keys, i + 1,
                   Append(out, [msg |-> "No such configuration key: %s", key |-> keys[i]]),
                   updated)
    ELSE unsetLoop(Del(settings, keys[i]), keys, i + 1,
                   Append(out, [msg |-> "Unset %s (value: %v)", key |-> keys[i],
                                value |-> settings[keys[i]]]),
                   TRUE)

\* configUnset.RunFunc
configUnset(file, args, choice) ==
    LET l == unsetLoop(getSettingsFromConfigFile(file).settings,
                       GetRepeatable(args, "key").value, 1, <<>>, FALSE)
    IN IF getSettingsFromConfigFile(file).err # Nil
       THEN [err |-> [msg |-> "unable to read configuration file: %w",
                      wrapped |-> getSettingsFromConfigFile(file).err],
             out |-> <<>>, file |-> file, writes |-> 0]
       ELSE IF ~l.updated
       THEN [err |-> Nil, out |-> Append(l.out, [msg |-> "Nothing to update"]),
             file |-> file, writes |-> 0]
       ELSE [err |-> Nil, out |-> Append(l.out, [msg |-> "Configuration file updated"]),
             file |-> WriteConfig(l.settings), writes |-> 1]

\* initializeConfig treating every read failure as a missing file
initializeConfigTolerant(file) == Nil

\* Application.initializeConfig, called by the root command's
\* PersistentPreRunE
initializeConfig(file) ==
    IF ReadInConfig(file).err # Nil /\ ~ReadInConfig(file).notExist
    THEN [msg |-> "failed to read configuration file: %w", wrapped |-> ReadInConfig(file).err]
    ELSE Nil

\* one Run of a freshly built application against the file: the root hook
\* first, then the hooks and the body of the resolved command
RunWithConfig(children, file, args, choice) ==
    LET r == ExecuteContextC(children, args, [value |-> FALSE, changed |-> FALSE], <<>>,
                             FALSE)
        bound == newArguments(r.c.Args, r.args)
        none == [err |-> r.err, out |-> <<>>, file |-> file, writes |-> 0]
        b == IF r.stage \in {"hooks", "run"} /\ initializeConfig(file) # Nil
             THEN [err |-> [msg |-> "failed to initialize configuration: %w",
                            wrapped |-> initializeConfig(file)],
                   out |-> <<>>, file |-> file, writes |-> 0]
             ELSE IF r.stage = "run" /\ r.body # <<>> /\ Len(r.cmd) = 3
                     /\ r.cmd[2] = "config"
             THEN CASE r.cmd[3] = "set" -> configSet(file, bound, choice)
                    [] r.cmd[3] = "get" -> configGet(file, bound, choice)
                    [] r.cmd[3] = "list" -> configList(file, bound, choice)
                    [] r.cmd[3] = "unset" -> configUnset(file, bound, choice)
             ELSE none
    IN [err |-> b.err, out |-> b.out, file |-> b.file, writes |-> b.writes,
        cmd |-> r.cmd,
        bodies |-> IF r.stage \in {"hooks", "run"} /\ initializeConfig(file) # Nil
                   THEN <<>> ELSE r.body]

(***************************************************************************)
(* SpecConfig: separate runs of one application (the config command and    *)
(* one command of the author) against the configuration file at a fixed    *)
(* path.                                                                   *)
(***************************************************************************)
CfgKeys == {"j", "k"}
CfgValues == {"v", "w"}
CfgSettings ==
    {<<>>} \cup UNION {[keys -> CfgValues] : keys \in (SUBSET CfgKeys) \ {{}}}

CfgFiles ==
    {[state |-> st, settings |-> <<>>] : st \in {"nodir", "missing", "unreadable"}}
    \cup {[state |-> "file", settings |-> st] : st \in CfgSettings}

CfgChildren == <<configCommand, NewCmd("ok")>>

CfgArgvs ==
    {<<>>, <<"nope">>, <<"new", "t1">>, <<"new">>,
     <<"config", "list">>,
     <<"config", "set", "k", "v">>, <<"config", "set", "k", "w">>,
     <<"config", "set", "K", "v">>, <<"config", "set", "j", "w">>,
     <<"config", "set", "k">>,
     <<"config", "get", "k">>, <<"config", "get", "K">>, <<"config", "get", "j">>,
     <<"config", "get", "k", "j">>,
     <<"config", "unset", "k">>, <<"config", "unset", "K">>, <<"config", "unset", "j">>,
     <<"config", "unset", "j", "k">>}

ConfigInit ==
    /\ ArgsIdle /\ NoRun /\ FlagIdle /\ RegIdle /\ NewIdle
    /\ commands = CfgChildren
    /\ rootChildren = CfgChildren
    /\ addErr = Nil
    /\ addCalls = 1
    /\ lastBatch = <<NewCmd("ok")>>
    /\ additionalGlobalFlags = <<>>
    /\ cfgFile \in CfgFiles
    /\ cfgBefore = cfgFile
    /\ cfgArgv = <<>> /\ cfgOut = <<>> /\ cfgErr = Nil /\ cfgBodies = <<>>
    /\ cfgWrites = 0
    /\ cfgPrev = [argv |-> <<>>, err |-> Nil, out |-> <<>>]

\* a user runs the application once
ConfigRun ==
    /\ \E args \in CfgArgvs, choice \in BOOLEAN :
         \E o \in {RunWithConfig(rootChildren, cfgFile, args, choice)} :
            /\ cfgFile' = o.file
            /\ cfgBefore' = cfgFile
            /\ cfgArgv' = args
            /\ cfgOut' = o.out
            /\ cfgErr' = o.err
            /\ cfgBodies' = o.bodies
            /\ cfgWrites' = o.writes
            /\ cfgPrev' = [argv |-> cfgArgv, err |-> cfgErr, out |-> cfgOut]
    /\ UNCHANGED <<argVars, treeVars, runVars, flagVars, regVars, newVars>>

ConfigNext == ConfigRun

SpecConfig == ConfigInit /\ [][ConfigNext]_vars

(***************************************************************************)
(* SpecNew: NewApplication on every name, title and version within the     *)
(* bounds.  A string is a sequence of characters; "tab" is the tab         *)
(* character.                                                              *)
(***************************************************************************)
Chars == {"a", " ", "tab"}
IsSpace(ch) == ch \in {" ", "tab"}

\* strings.TrimSpace
RECURSIVE TrimLeft(_)
TrimLeft(str) ==
    IF str # <<>> /\ IsSpace(str[1]) THEN TrimLeft(Tail(str)) ELSE str

RECURSIVE TrimRight(_)
TrimRight(str) ==
    IF str # <<>> /\ IsSpace(str[Len(str)]) THEN TrimRight(SubSeq(str, 1, Len(str) - 1))
    ELSE str

TrimSpace(str) == TrimRight(TrimLeft(str))

\* strings.Contains(str, ch) for a one-character ch
Contains(str, ch) == \E i \in 1..Len(str) : str[i] = ch

\* the error NewApplication returns; configDir tells whether
\* os.UserConfigDir succeeds
newApplication(name, title, version, configDir) ==
    IF TrimSpace(name) = <<>> \/ Contains(TrimSpace(name), " ")
    THEN [msg |-> "application name must not be empty and must not contain spaces, got: %q",
          name |-> name]
    ELSE IF TrimSpace(title) = <<>> THEN [msg |-> "application title must not be empty"]
    ELSE IF TrimSpace(version) = <<>> THEN [msg |-> "application version must not be empty"]
    ELSE IF ~configDir THEN [msg |-> "failed to get user config directory: %w"]
    ELSE Nil

NewInit ==
    /\ ArgsIdle /\ NewApplication /\ NoRun /\ FlagIdle /\ RegIdle /\ CfgIdle
    /\ nName \in SeqsUpTo(Chars, MaxNameLen)
    /\ nTitle \in {<<>>, <<" ">>, <<"a">>}
    /\ nVersion \in {<<>>, <<" ">>, <<"a">>}
    /\ nErr = Nil
    /\ nPc = "args"

NewApplicationCall ==
    /\ nPc = "args"
    /\ \E configDir \in BOOLEAN : nErr' = newApplication(nName, nTitle, nVersion, configDir)
    /\ nPc' = "returned"
    /\ UNCHANGED <<nName, nTitle, nVersion, argVars, treeVars, runVars, flagVars, regVars,
                   cfgVars>>

NewNext == NewApplicationCall

SpecNew == NewInit /\ [][NewNext]_vars

NumSpecs == Len(aSpecs)
NumTokens == Len(aTokens)
NumPlain == Cardinality({i \in 1..Len(aSpecs) : ~aSpecs[i].Repeatable})
RepeatableOnlyLast == \A i \in 1..Len(aSpecs) : aSpecs[i].Repeatable => i = Len(aSpecs)
LastRepeatable == Len(aSpecs) > 0 /\ aSpecs[Len(aSpecs)].Repeatable
CountChecked == aPc \in {"checked", "done"} /\ aCheck.init = Nil

\* C4: with N >= 1 specifications, none repeatable, the count check passes on
\* exactly N tokens and fails on fewer with "Expected exactly N"; with a
\* trailing repeatable specification it fails on fewer than N tokens with
\* "Expected at least N" and passes on N or more.
C4_CountCheckExact ==
    (CountChecked /\ NumSpecs >= 1) =>
        IF ~hasRepeatable(aSpecs)
        THEN /\ (NumTokens = NumSpecs => aCheck.count = Nil)
             /\ (NumTokens < NumSpecs =>
                    /\ aCheck.count.msg = "Expected exactly %d argument%s, got %d"
                    /\ aCheck.count.n = NumSpecs)
        ELSE /\ (NumTokens >= NumSpecs => aCheck.count = Nil)
             /\ (NumTokens < NumSpecs =>
                    /\ aCheck.count.msg = "Expected at least %d argument%s, got %d"
                    /\ aCheck.count.n = NumSpecs)

C4_Witness ==
    /\ CountChecked /\ NumSpecs >= 2 /\ hasRepeatable(aSpecs)
    /\ NumTokens = NumSpecs - 1
    /\ aCheck.count.msg = "Expected at least %d argument%s, got %d"

\* C6: for a declaration whose only repeatable specification, if any, is the
\* last, and at least as many tokens as non-repeatable specifications,
\* newArguments(specs, tokens).All() is the consumed tokens in order: every
\* token when the last specification is repeatable, the first N otherwise.
C6_AllReproducesTokens ==
    (aPc = "done" /\ RepeatableOnlyLast /\ NumTokens >= NumPlain) =>
        aAll = IF LastRepeatable THEN aTokens ELSE SubSeq(aTokens, 1, NumSpecs)

C6_Witness ==
    /\ aPc = "done" /\ RepeatableOnlyLast /\ LastRepeatable
    /\ NumSpecs >= 2 /\ NumTokens > NumSpecs
    /\ aAll = aTokens

(***************************************************************************)
(* Declared trees, described independently of init's traversal.            *)
(***************************************************************************)
\* every node of the declarations cmds, at any depth
RECURSIVE NodesOf(_)
NodesOf(cmds) ==
    UNION {{cmds[i]} \cup NodesOf(cmds[i].SubCommands) : i \in 1..Len(cmds)}

\* every nested sibling level below the declarations cmds: the path of the
\* owning node and the names and aliases of its children
RECURSIVE LevelsOf(_, _)
LevelsOf(cmds, cmd) ==
    UNION {{[path |-> cmd \o <<cmds[i].Name>>,
             tokens |-> commandsAndAliases(cmds[i].SubCommands)]}
           \cup LevelsOf(cmds[i].SubCommands, cmd \o <<cmds[i].Name>>)
           : i \in 1..Len(cmds)}

\* the tokens occurring more than once in a sequence
Repeated(tokens) ==
    {tokens[i] : i \in {j \in 1..Len(tokens) :
                          \E k \in 1..Len(tokens) : k # j /\ tokens[k] = tokens[j]}}

AnyLevelRepeats(all) ==
    \/ Repeated(commandsAndAliases(all)) # {}
    \/ \E lv \in LevelsOf(all, <<AppName>>) : Repeated(lv.tokens) # {}

AllNodesValid(all) == \A c \in NodesOf(all) : validate(c) = Nil

TopDuplicateMsg == "the application contains duplicate commands and/or aliases: %q"
NestedDuplicateMsg == "command %q contains duplicate commands and/or aliases: %q"
RunOrSubsMsg == "either RunFunc or SubCommands must be set for command: %v"

\* C3: within one AddCommand call, a name or alias occurring twice among the
\* commands of the call, or among the sub-commands of any node at any depth,
\* makes the call fail; when every declaration is otherwise valid the error
\* is a duplicate error naming a token that is repeated at the level it
\* names (the top level, or the node with the printed path).
C3_DuplicatePerLevel ==
    (addCalls = 1 /\ AnyLevelRepeats(lastBatch)) =>
        /\ addErr # Nil
        /\ AllNodesValid(lastBatch) =>
             \/ /\ addErr.msg = TopDuplicateMsg
                /\ addErr.d \in Repeated(commandsAndAliases(lastBatch))
             \/ /\ addErr.msg = "failed to initialize command %q: %w"
                /\ Cause(addErr).msg = NestedDuplicateMsg
                /\ \E lv \in LevelsOf(lastBatch, <<AppName>>) :
                     /\ lv.path = Cause(addErr).cmd
                     /\ Cause(addErr).d \in Repeated(lv.tokens)

\* C3 witness: a nested level two below the top repeats a token through an
\* alias and the error names the owning path.
C3_Witness ==
    /\ addCalls = 1
    /\ AllNodesValid(lastBatch)
    /\ Repeated(commandsAndAliases(lastBatch)) = {}
    /\ Cause(addErr).msg = NestedDuplicateMsg
    /\ Cause(addErr).cmd = <<AppName, "g", "h">>
    /\ Cause(addErr).d = "a"

BothOrNeither(c) == (c.RunFunc = "nil") = (Len(c.SubCommands) = 0)
NameAndTitleOk(c) ==
    /\ ~TrimSpaceIsEmpty(c.Name) /\ ~ContainsSpace(c.Name)
    /\ ~TrimSpaceIsEmpty(c.Title) /\ ~ContainsNewline(c.Title)

\* C5: a command that sets both RunFunc and SubCommands, or neither, never
\* initializes: AddCommand fails, and when the command's name and title are
\* valid its validation error is the RunFunc-or-SubCommands error; a command
\* with exactly one of the two never gets that error.
C5_RunFuncXorSubCommands ==
    addCalls = 1 =>
        /\ (\E c \in NodesOf(lastBatch) : BothOrNeither(c)) => addErr # Nil
        /\ \A c \in NodesOf(lastBatch) :
             /\ (BothOrNeither(c) /\ NameAndTitleOk(c)) =>
                    validate(c) = [msg |-> RunOrSubsMsg, name |-> c.Name]
             /\ ~BothOrNeither(c) => validate(c).msg # RunOrSubsMsg
        /\ (BothOrNeither(lastBatch[1]) /\ NameAndTitleOk(lastBatch[1])) =>
             /\ Cause(addErr) = [msg |-> RunOrSubsMsg, name |-> lastBatch[1].Name]
             /\ rootChildren = <<configCommand>>
        /\ (\A c \in NodesOf(lastBatch) : ~BothOrNeither(c)) =>
             Cause(addErr).msg # RunOrSubsMsg

\* C5 witness: the first command of the call sets both a RunFunc and
\* SubCommands and AddCommand returned the error.
C5_Witness ==
    /\ addCalls = 1
    /\ lastBatch[1].RunFunc # "nil"
    /\ Len(lastBatch[1].SubCommands) > 0
    /\ Cause(addErr).msg = RunOrSubsMsg

(***************************************************************************)
(* Runs, described from the declared tree and the argv.                    *)
(***************************************************************************)
Root == rootCommand(rootChildren)

\* the command declared at a path (the application name first)
RECURSIVE CommandAtFrom(_, _, _)
CommandAtFrom(c, path, i) ==
    IF i > Len(path) THEN c
    ELSE CommandAtFrom(CHOOSE k \in {c.SubCommands[j] : j \in 1..Len(c.SubCommands)} :
                           k.Name = path[i], path, i + 1)

CommandAt(path) == CommandAtFrom(Root, path, 2)

IsMarked(c) == c.Deprecated.kind \in {"static", "func", "none"}

\* the last ExecuteContextC reached the RunE of a command carrying a marker
DispatchedMarked == lastExec.stage = "run" /\ IsMarked(lastExec.c)

\* the tokens the marker of the last resolved command yields
MarkerTokens ==
    IF lastExec.c.Deprecated.kind = "static" THEN lastExec.c.Deprecated.list
    ELSE IF lastExec.c.Deprecated.kind = "none" THEN <<>>
    ELSE IF lastExec.c.Deprecated.fn = "forward" THEN <<"new">> \o lastExec.args
    ELSE <<>>

\* C7: the RunFunc of a command carrying a deprecation marker is never
\* executed by any Run; when the dispatch of such a command is reached it
\* yields a deprecation signal and no body, and for a static or dynamic
\* marker the signal's tokens are the static list or the result of the
\* replacement function applied to the command's bound arguments.
C7_DeprecatedBodyNeverRuns ==
    /\ \A i \in 1..Len(bodies) : ~IsMarked(CommandAt(bodies[i].path))
    /\ DispatchedMarked =>
         /\ lastExec.body = <<>>
         /\ IsDeprecatedCommandError(lastExec.err)
         /\ lastExec.c.Deprecated.kind \in {"static", "func"} =>
              lastExec.err.Replacement = MarkerTokens

\* C7 witness: a dynamic marker received two bound tokens and the signal
\* carries the function's result for them.
C7_Witness ==
    /\ DispatchedMarked
    /\ lastExec.c.Deprecated.kind = "func"
    /\ Len(lastExec.args) = 2
    /\ lastExec.err.Replacement = <<"new">> \o lastExec.args
    /\ bodies = <<>>

\* the last ExecuteContextC returned a signal that does not ask for, or
\* cannot have, automatic execution
SignalWithoutRedirect ==
    /\ DispatchedMarked
    /\ IsDeprecatedCommandError(lastExec.err)
    /\ (~lastExec.err.ExecuteReplacement \/ Len(lastExec.err.Replacement) = 0)

\* C8: a deprecation signal with ExecuteReplacement false, or with an empty
\* Replacement, is not redirected: Run returns it; its message names the
\* replacement tokens prefixed by the application name when the marker has
\* a replacement, and is only "the command is deprecated" when it has none.
C8_SignalReported ==
    SignalWithoutRedirect =>
        /\ rPc = "returned"
        /\ IsDeprecatedCommandError(runErr)
        /\ DeprecatedError(runErr) =
             IF Len(MarkerTokens) > 0
             THEN [msg |-> "the command is deprecated, please use %q instead",
                   q |-> <<AppName>> \o MarkerTokens]
             ELSE [msg |-> "the command is deprecated"]

\* the path of the command argv resolves to
ResolvedPath(args) == CommandPath(innerfind(<<Root>>, args).chain)

\* C9: when the automatic redirects of a Run reach a command the same Run
\* already redirected from, Run stops: the next step of the loop returns
\* instead of redirecting again.
C9_StopsAtVisitedCommand ==
    [][(rPc = "loop" /\ ResolvedPath(argv) \in visited)
          => (rPc' = "returned" /\ runErr' # Nil /\ hops' = hops)]_vars

\* the non-flag tokens of argv walk through k matching commands to a command
\* without RunFunc, and token k+1 matches none of its children
RECURSIVE WalkFrom(_, _, _)
WalkFrom(chain, toks, i) ==
    LET c == chain[Len(chain)]
        next == {k \in 1..Len(c.SubCommands) :
                   \/ c.SubCommands[k].Name = toks[i]
                   \/ toks[i] \in {c.SubCommands[k].Aliases[a] :
                                     a \in 1..Len(c.SubCommands[k].Aliases)}}
    IN IF i > Len(toks) \/ next = {} THEN [chain |-> chain, i |-> i]
       ELSE WalkFrom(Append(chain, c.SubCommands[CHOOSE k \in next : TRUE]), toks, i + 1)

Walk == WalkFrom(<<Root>>, stripFlags(argv), 1)
StopsAtBranch ==
    /\ Walk.i <= Len(stripFlags(argv))
    /\ Walk.chain[Len(Walk.chain)].RunFunc = "nil"
WalkNames == [i \in 1..Len(Walk.chain) |-> Walk.chain[i].Name]
UnknownCommandOutcome ==
    /\ runErr # Nil
    /\ Cause(runErr) = [msg |-> "unknown command %q for %q",
                        token |-> stripFlags(argv)[Walk.i], path |-> WalkNames]
    /\ lastExec.body = <<>>
    /\ executedCommand = WalkNames
NoHookRejects ==
    \A i \in 2..Len(Walk.chain) :
        /\ Walk.chain[i].ValidateFunc # "fail"
        /\ Walk.chain[i].Args = <<>>

C1_RedirectEqualsDirectRun ==
    (rPc = "returned" /\ hops = 1) =>
        LET direct == ExecuteContextC(rootChildren, start.firstR, start.flag, start.sentinel,
                          IsDeprecatedCommandError(lastExec.err)
                              /\ lastExec.err.ExecuteReplacement)
        IN /\ runErr = RunReturns(direct)
           /\ bodies = direct.body
           /\ executedCommand = direct.cmd
           /\ executedCommand = ResolvedPath(start.firstR)

(***************************************************************************)
(* The value each source denotes for a kind, as a user means it.           *)
(***************************************************************************)
Meaning(kind, text) ==
    CASE kind = "string" -> text
      [] kind = "bool" -> (text = "true")
      [] kind = "int" -> (CASE text = "2" -> 2 [] text = "-1" -> 0 - 1 [] OTHER -> 0)
      [] kind = "uint" -> (CASE text = "2" -> 2 [] OTHER -> 0)
      [] kind = "duration" -> (CASE text = "1s" -> 1 [] text = "90s" -> 90 [] OTHER -> 0)
      [] kind = "strings" ->
           (CASE text = "a,b" -> <<"a", "b">> [] text = "a b" -> <<"a", "b">>
              [] text = "a" -> <<"a">> [] OTHER -> <<>>)

FileMeaning == IF fKind = "duration" THEN Meaning(fKind, fFile.v) ELSE fFile.v

Precedence(envCounts) ==
    IF fCli.set THEN Meaning(fKind, fCli.text)
    ELSE IF envCounts THEN Meaning(fKind, fEnv.text)
    ELSE IF fFile.set THEN FileMeaning
    ELSE fDefault

TooManyTokens ==
    /\ lastExec.stage \in {"hooks", "run"}
    /\ Len(lastExec.c.Args) >= 1
    /\ ~hasRepeatable(lastExec.c.Args)
    /\ Len(lastExec.args) > Len(lastExec.c.Args)

\* C11: a command with N >= 1 specifications, none repeatable, invoked with
\* M > N positional tokens fails the count check with "Expected exactly N
\* ..., got M", M the number of tokens supplied, and its body does not run.
C11_TooManyTokensRejected ==
    TooManyTokens =>
        /\ lastExec.err = Errorf3("Expected exactly %d argument%s, got %d",
                                  Len(lastExec.c.Args), plural(Len(lastExec.c.Args)),
                                  Len(lastExec.args))
        /\ lastExec.body = <<>>

(***************************************************************************)
(* The stages of one invocation of a leaf command: count check, the user's *)
(* ValidateFunc, body.                                                     *)
(***************************************************************************)
\* the last ExecuteContextC resolved a command with a RunFunc
LeafInvoked == lastExec.stage \in {"hooks", "run"} /\ lastExec.c.RunFunc # "nil"

\* the commands between the root and the resolved command accept its tokens
AncestorsPass ==
    \A k \in 2..(Len(lastExec.cmd) - 1) :
        ValidateFuncOf(CommandAt(SubSeq(lastExec.cmd, 1, k)), lastExec.args) = Nil

\* the outcome of the built-in count check of the resolved command
CountCheckOf == validationFunc(lastExec.c.Args, newArguments(lastExec.c.Args, lastExec.args))

UserRejected == [msg |-> "input validation failed: %v", v |-> "rejected"]

\* C12: the stages of an invocation of a leaf command run in a fixed order.
\* A failing count check is the error returned, whatever the user-supplied
\* ValidateFunc would say, and no body runs; with a passing count check a
\* failing ValidateFunc is the error returned and no body runs; a body runs
\* only when both passed; Run returns the error of the failed stage.
C12_StagesInOrder ==
    (LeafInvoked /\ AncestorsPass) =>
        /\ CountCheckOf # Nil =>
             /\ lastExec.stage = "hooks"
             /\ lastExec.err = CountCheckOf
             /\ lastExec.body = <<>>
        /\ (CountCheckOf = Nil /\ lastExec.c.ValidateFunc = "fail") =>
             /\ lastExec.stage = "hooks"
             /\ lastExec.err = UserRejected
             /\ lastExec.body = <<>>
        /\ lastExec.body # <<>> =>
             /\ CountCheckOf = Nil
             /\ lastExec.c.ValidateFunc # "fail"
        /\ (lastExec.stage = "hooks" /\ rPc = "returned") =>
             /\ runErr = lastExec.err
             /\ bodies = <<>>

\* C12 witness: a command whose count check fails and whose ValidateFunc
\* would reject as well returned the count error; no body ran.
C12_Witness ==
    /\ LeafInvoked
    /\ lastExec.c.ValidateFunc = "fail"
    /\ CountCheckOf # Nil
    /\ rPc = "returned"
    /\ runErr = CountCheckOf
    /\ bodies = <<>>

(***************************************************************************)
(* The accessors of the bound arguments.                                   *)
(***************************************************************************)
\* an accessor was called on arguments that passed the count check of a
\* declaration validateArgs accepts
GotAfterCheck == aPc = "got" /\ aCheck.init = Nil /\ aCheck.count = Nil

\* what positional binding promises for the accessor call made
PositionalOutcome ==
    /\ \A i \in 1..Len(aSpecs) :
         (aGet.fn = "Get" /\ ~aSpecs[i].Repeatable /\ aGet.name = aSpecs[i].Name)
             => aGet.out = Returned(aTokens[i])
    /\ (aGet.fn = "GetRepeatable" /\ LastRepeatable
          /\ aGet.name = aSpecs[Len(aSpecs)].Name)
             => aGet.out = Returned(SubSeq(aTokens, Len(aSpecs), Len(aTokens)))

\* no two non-repeatable specifications share a name
PlainNamesDistinct ==
    \A i, j \in 1..Len(aSpecs) :
        (i # j /\ ~aSpecs[i].Repeatable /\ ~aSpecs[j].Repeatable)
            => aSpecs[i].Name # aSpecs[j].Name

\* C13 as stated: for specifications and tokens that satisfy the count check,
\* Get(s_i.Name) is the i-th token for every non-repeatable s_i and
\* GetRepeatable(s_n.Name) is the tokens from the n-th on when s_n is
\* repeatable.
C13_PositionalBindingAnyNames == GotAfterCheck => PositionalOutcome

\* C13: the same, for declarations whose non-repeatable specifications have
\* pairwise distinct names.
C13_PositionalBinding == (GotAfterCheck /\ PlainNamesDistinct) => PositionalOutcome

\* C13 witness: specifications [y, x (repeatable)] with three tokens;
\* GetRepeatable("x") returned the second and third token.
C13_Witness ==
    /\ GotAfterCheck
    /\ Len(aSpecs) = 2 /\ ~aSpecs[1].Repeatable /\ aSpecs[2].Repeatable
    /\ Len(aTokens) = 3 /\ aTokens[2] # aTokens[3]
    /\ aGet.fn = "GetRepeatable" /\ aGet.name = aSpecs[2].Name
    /\ aGet.out = Returned(<<aTokens[2], aTokens[3]>>)

\* a bound slot of the given cardinality carries the name asked for
HasSlot(name, repeatable) ==
    \E i \in 1..Len(aBound) : aBound[i].name = name /\ aBound[i].repeatable = repeatable

\* C14: Get(name) returns a value only when a bound non-repeatable slot has
\* that name and otherwise panics with `"<name>" is not a valid argument`;
\* GetRepeatable(name) returns a value only when a bound repeatable slot has
\* that name and otherwise panics with `"<name>" is not a valid repeatable
\* argument`.
C14_AccessorPanics ==
    aPc = "got" =>
        /\ aGet.fn = "Get" =>
             IF HasSlot(aGet.name, FALSE)
             THEN DOMAIN aGet.out = {"value"}
             ELSE aGet.out = Panic("%q is not a valid argument", aGet.name)
        /\ aGet.fn = "GetRepeatable" =>
             IF HasSlot(aGet.name, TRUE)
             THEN DOMAIN aGet.out = {"value"}
             ELSE aGet.out = Panic("%q is not a valid repeatable argument", aGet.name)

\* C14 witness: Get called with the name of a bound repeatable slot panicked.
C14_Witness ==
    /\ aPc = "got"
    /\ aGet.fn = "Get"
    /\ HasSlot(aGet.name, TRUE)
    /\ aGet.out = Panic("%q is not a valid argument", aGet.name)

(***************************************************************************)
(* Duplicates across AddCommand calls.                                     *)
(***************************************************************************)
\* the commands passed to the AddCommand calls before the last one
EarlierBatch == SubSeq(commands, 2, Len(commands) - Len(lastBatch))

\* a second AddCommand call, after a first that returned nil, adds valid
\* commands one of which carries a name or alias the first call registered
LaterCallRepeatsEarlier ==
    /\ addCalls = 2
    /\ addCommandLoop(EarlierBatch, 1).err = Nil
    /\ AllNodesValid(lastBatch)
    /\ \E t \in {commandsAndAliases(lastBatch)[i] :
                   i \in 1..Len(commandsAndAliases(lastBatch))} :
         t \in {commandsAndAliases(EarlierBatch)[i] :
                  i \in 1..Len(commandsAndAliases(EarlierBatch))}

\* C15: duplicate detection among top-level commands covers every command
\* registered so far: a later AddCommand call adding a command whose name or
\* alias equals the name or an alias of a command registered by an earlier
\* call returns an error containing "the application contains duplicate
\* commands".
C15_DuplicateAcrossCalls ==
    LaterCallRepeatsEarlier => addErr.msg = TopDuplicateMsg

(***************************************************************************)
(* Reconciliation before the body.                                         *)
(***************************************************************************)
\* the StickyFlags structs declared by the ancestors of the command at path,
\* the command itself included
RECURSIVE StickyOnPath(_, _)
StickyOnPath(path, k) ==
    IF k > Len(path) THEN {}
    ELSE (IF CommandAt(SubSeq(path, 1, k)).StickyFlags = "nil" THEN {}
          ELSE {CommandAt(SubSeq(path, 1, k)).StickyFlags})
         \cup StickyOnPath(path, k + 1)

ReconciledSet == {reconciled[i] : i \in 1..Len(reconciled)}

EmptyArgName(c) == \E i \in 1..Len(c.Args) : c.Args[i].Name = ""

MisplacedRepeatable(c) ==
    \E i \in 1..Len(c.Args) : c.Args[i].Repeatable /\ i < Len(c.Args)

AtMostOneRepeatableLast(c) ==
    /\ Cardinality({i \in 1..Len(c.Args) : c.Args[i].Repeatable}) <= 1
    /\ \A i \in 1..Len(c.Args) : c.Args[i].Repeatable => i = Len(c.Args)

\* the commands the root command holds, the built-in one aside
Attached == SubSeq(rootChildren, 2, Len(rootChildren))

\* C17: AddCommand fails when an argument specification of a command of the
\* call, at any depth, has an empty name or is repeatable without being the
\* last; hence every command that initialised has at most one repeatable
\* argument, the last one, and no argument without a name.
C17_ArgSpecsValidated ==
    addCalls >= 1 =>
        /\ (\E c \in NodesOf(lastBatch) : EmptyArgName(c) \/ MisplacedRepeatable(c))
               => addErr # Nil
        /\ \A c \in NodesOf(Attached) :
               AtMostOneRepeatableLast(c) /\ ~EmptyArgName(c)

\* C17 witness: a nested command declares a repeatable argument before a
\* plain one and AddCommand returned the error of validateArgs.
C17_Witness ==
    /\ addCalls = 1
    /\ Len(lastBatch) = 1
    /\ Len(lastBatch[1].SubCommands) = 1
    /\ MisplacedRepeatable(lastBatch[1].SubCommands[1])
    /\ ~EmptyArgName(lastBatch[1].SubCommands[1])
    /\ Cause(addErr).msg =
           "a repeatable argument (%+v) must be the last argument for the command"
    /\ Attached = <<>>

(***************************************************************************)
(* Flag registration, described from the flags value passed.               *)
(***************************************************************************)
\* the fields of a flags value, none when it is not a pointer to a struct
FieldsOf(id) ==
    IF FlagsOf(id).kind = "ptr" /\ FlagsOf(id).elem = "struct"
    THEN FlagsOf(id).fields ELSE <<>>

\* a field that is a reference to a struct
IsReference(field) == field.Type = "*struct" /\ field.Ref # "nil"

\* the fields registration turns into flags: exported, not a reference
Eligible(id) ==
    {i \in 1..Len(FieldsOf(id)) :
        IsExported(FieldsOf(id)[i]) /\ ~IsReference(FieldsOf(id)[i])}

\* a value was given and it is not a pointer to a struct
NotPointerToStruct(id) ==
    /\ FlagsOf(id).kind # "nil"
    /\ ~(FlagsOf(id).kind = "ptr" /\ FlagsOf(id).elem = "struct")

LongShort(id) ==
    \E i \in Eligible(id) : ByteLen(getFlagShort(FieldsOf(id)[i])) > 1

\* string, bool, uint, int, string sequence, duration, Count, and the named
\* string and string-sequence types
ListedKinds ==
    {"string", "MyString", "bool", "uint", "int", "[]string", "[]MyString",
     "Duration", "Count"}

UnlistedKind(id) == \E i \in Eligible(id) : FieldsOf(id)[i].Type \notin ListedKinds

Rejected(id) == NotPointerToStruct(id) \/ LongShort(id) \/ UnlistedKind(id)

RegistrationErrors ==
    {"expected flags to be a pointer", "expected flags to be a pointer to a struct",
     "short flag must be a single character", "unknown flag type: %T"}

\* the flags values of the commands of the last AddCommand call
FlagsOfCommands(cmds) == UNION {{c.Flags, c.StickyFlags} : c \in NodesOf(cmds)}

\* C18: registration returns an error, and the enclosing AddGlobalFlags or
\* AddCommand fails, when the flags value is not a pointer to a struct, when
\* a field has a short tag longer than one character, or when a field's
\* kind, after unwrapping named string and string-sequence types, is none of
\* string, bool, uint, int, string sequence, duration and Count.
C18_RegistrationErrors ==
    /\ (regCalls >= 1 /\ Rejected(regLast)) =>
          /\ regOut.msg = "failed to setup global flags: %w"
          /\ Cause(regOut).msg \in RegistrationErrors
          /\ \A i \in 1..Len(additionalGlobalFlags) :
                 ~Rejected(additionalGlobalFlags[i])
    /\ (addCalls = 1 /\ \E id \in FlagsOfCommands(lastBatch) : Rejected(id)) =>
          /\ addErr.msg = "failed to initialize command %q: %w"
          /\ Cause(addErr).msg \in RegistrationErrors
          /\ Attached = <<>>

\* C18 witness: AddGlobalFlags was given a struct whose second field is a
\* float and returned the unknown-type error; the struct was not added.
C18_Witness ==
    /\ regCalls = 1
    /\ regLast = "float"
    /\ Cause(regOut) = [msg |-> "unknown flag type: %T", type |-> "float64"]
    /\ additionalGlobalFlags = <<>>

\* the names the eligible fields of a flags value ask for, in field order
RECURSIVE NamesAsked(_, _)
NamesAsked(id, i) ==
    IF i > Len(FieldsOf(id)) THEN <<>>
    ELSE (IF i \in Eligible(id) THEN <<getFlagName(FieldsOf(id)[i])>> ELSE <<>>)
         \o NamesAsked(id, i + 1)

\* the first name asked for that the scope already holds or that an earlier
\* field of the same struct asked for; "" when there is none
RECURSIVE FirstTaken(_, _, _)
FirstTaken(names, i, taken) ==
    IF i > Len(names) THEN ""
    ELSE IF names[i] \in taken THEN names[i]
    ELSE FirstTaken(names, i + 1, taken \cup {names[i]})

NameTaken(id, scope) == FirstTaken(NamesAsked(id, 1), 1, FlagNames(scope))

\* C19: no two flags of a parser scope share a name: registering a struct
\* with a field whose flag name (the name tag, or the lower-cased field
\* identifier) is already registered on the scope, the built-in verbose,
\* no-colors and config included, fails with `duplicate flag name: "<name>"`.
C19_NoDuplicateFlagNames ==
    /\ \A i, j \in 1..Len(rootFlags) : i # j => rootFlags[i].name # rootFlags[j].name
    /\ (regCalls >= 1 /\ NameTaken(regLast, regBefore) # "") =>
          /\ regOut # Nil
          /\ ~Rejected(regLast) =>
                Cause(regOut) = [msg |-> "duplicate flag name: %q",
                                 name |-> NameTaken(regLast, regBefore)]

\* C19 witness: after a successful registration a struct with a field Config
\* without name tag was refused for the built-in flag config.
C19_Witness ==
    /\ regCalls = 2
    /\ Len(additionalGlobalFlags) = 1
    /\ regLast = "config"
    /\ Cause(regOut) = [msg |-> "duplicate flag name: %q", name |-> "config"]

\* the flags a successful registration added to the scope
Added == SubSeq(rootFlags, Len(regBefore) + 1, Len(rootFlags))

\* the last AddGlobalFlags call succeeded on a struct with a field that is a
\* reference to another struct
RegisteredWithReference ==
    /\ regCalls >= 1 /\ regOut = Nil
    /\ \E i \in 1..Len(FieldsOf(regLast)) :
         IsExported(FieldsOf(regLast)[i]) /\ IsReference(FieldsOf(regLast)[i])

\* the names of the eligible fields of the structs the fields of id refer to
NamesBehindReferences(id) ==
    UNION {{NamesAsked(FieldsOf(id)[i].Ref, 1)[k] :
              k \in 1..Len(NamesAsked(FieldsOf(id)[i].Ref, 1))} :
           i \in {j \in 1..Len(FieldsOf(id)) : IsReference(FieldsOf(id)[j])}}

\* C20 as stated: a field that is a reference to another struct is not
\* registered itself; registration recurses into the referenced struct and
\* registers each of its eligible fields on the same scope.
C20_RecursesIntoReferences ==
    RegisteredWithReference =>
        /\ \A i \in 1..Len(FieldsOf(regLast)) :
             IsReference(FieldsOf(regLast)[i])
                 => getFlagName(FieldsOf(regLast)[i]) \notin FlagNames(Added)
        /\ NamesBehindReferences(regLast) \subseteq FlagNames(Added)

\* C20: a field that is a (non-nil) reference to another struct is skipped:
\* no flag is registered for it, and the call registers the other eligible
\* fields of the struct it was given and nothing else.
C20_SkipsReferences ==
    RegisteredWithReference =>
        /\ \A i \in 1..Len(FieldsOf(regLast)) :
             IsReference(FieldsOf(regLast)[i])
                 => getFlagName(FieldsOf(regLast)[i]) \notin FlagNames(Added)
        /\ [i \in 1..Len(Added) |-> Added[i].name] = NamesAsked(regLast, 1)

\* C20 witness: a struct with a reference to a struct holding the flag quiet
\* and a field resources was registered; only resources was added.
C20_Witness ==
    /\ regCalls = 1 /\ regOut = Nil
    /\ regLast = "create"
    /\ Added = <<[name |-> "resources", short |-> "r"]>>
    /\ "quiet" \notin FlagNames(rootFlags)

(***************************************************************************)
(* The config commands across separate runs.                               *)
(***************************************************************************)
IsConfig(args, sub) == Len(args) >= 2 /\ args[1] = "config" /\ args[2] = sub

Updated(out) == Len(out) > 0 /\ out[Len(out)].msg = "Configuration file updated"

\* the run before the last was `config set k v` and it succeeded
SetSucceeded ==
    /\ IsConfig(cfgPrev.argv, "set") /\ Len(cfgPrev.argv) = 4
    /\ cfgPrev.err = Nil /\ Updated(cfgPrev.out)

\* the run before the last was `config unset k` and it succeeded
UnsetSucceeded ==
    /\ IsConfig(cfgPrev.argv, "unset") /\ Len(cfgPrev.argv) = 3
    /\ cfgPrev.err = Nil

\* the last run was `config get` of the key of the run before
GetsSameKey ==
    /\ IsConfig(cfgArgv, "get") /\ Len(cfgArgv) = 3
    /\ cfgArgv[3] = cfgPrev.argv[3]

NoSuchKey(key) ==
    [msg |-> "No such configuration key: %s, create the value using config set %s <value>",
     key |-> key]

\* C21: for a fixed file path, across separate runs: after `config set k v`
\* succeeds `config get k` prints `k = v`; after a following `config unset k`
\* succeeds `config get k` reports that no such key exists and returns no
\* error; `config list` on a missing or empty file reports that the file is
\* empty or does not yet exist.
C21_SetGetUnsetList ==
    /\ (SetSucceeded /\ GetsSameKey) =>
          /\ cfgErr = Nil
          /\ cfgOut = <<[msg |-> "%s = %v", key |-> cfgArgv[3], value |-> cfgPrev.argv[4]]>>
    /\ (UnsetSucceeded /\ GetsSameKey) =>
          /\ cfgErr = Nil
          /\ cfgOut = <<NoSuchKey(cfgArgv[3])>>
    /\ (IsConfig(cfgArgv, "list") /\ DOMAIN cfgBefore.settings = {}
            /\ cfgBefore.state # "unreadable") =>
          /\ cfgErr = Nil
          /\ cfgOut[1].msg = "The configuration file %s is empty, or it does not yet exist"

\* the last run resolved a command and cobra ran its hooks
Dispatched ==
    /\ cfgArgv # <<>>
    /\ ExecuteContextC(rootChildren, cfgArgv, [value |-> FALSE, changed |-> FALSE], <<>>,
                       FALSE).stage \in {"hooks", "run"}

EmptyFile == [state |-> "file", settings |-> <<>>]

\* C22: when the configuration file does not exist, Run proceeds as with an
\* empty configuration and the resolved command's body executes; when
\* reading the file fails for another reason, Run returns the error "failed
\* to initialize configuration" and no command body executes.
C22_MissingFileTolerated ==
    /\ (Dispatched /\ cfgBefore.state \in {"nodir", "missing"}) =>
          /\ cfgErr = RunWithConfig(rootChildren, EmptyFile, cfgArgv, TRUE).err
          /\ cfgBodies = RunWithConfig(rootChildren, EmptyFile, cfgArgv, TRUE).bodies
          /\ cfgArgv = <<"new", "t1">> =>
                cfgErr = Nil /\ cfgBodies = <<[path |-> <<AppName, "new">>, args |-> <<"t1">>,
                                               noColors |-> FALSE]>>
    /\ (Dispatched /\ cfgBefore.state = "unreadable") =>
          /\ cfgErr.msg = "failed to initialize configuration: %w"
          /\ Cause(cfgErr) = ReadError
          /\ cfgBodies = <<>>
          /\ cfgFile = cfgBefore

\* C22 witness: the author's command was run against an unreadable file and
\* Run returned the configuration error without running the body.
C22_Witness ==
    /\ cfgArgv = <<"new", "t1">>
    /\ cfgBefore.state = "unreadable"
    /\ cfgErr.msg = "failed to initialize configuration: %w"
    /\ cfgBodies = <<>>

\* the keys the last run named on the command line, as the store knows them
NamedKeys == {ToLower(cfgArgv[i]) : i \in 3..(IF IsConfig(cfgArgv, "set") THEN 3 ELSE Len(cfgArgv))}

\* the last run ran the body of config set or config unset
RanSetOrUnset ==
    /\ IsConfig(cfgArgv, "set") \/ IsConfig(cfgArgv, "unset")
    /\ cfgBodies # <<>>

\* C26: `config set k v` and `config unset k...` rewrite the whole file from
\* the values read at the start: every key other than the ones named that
\* was in the file before has the same value afterwards, and `config unset`
\* naming only keys absent from the file performs no write.
C26_OtherKeysKept ==
    /\ RanSetOrUnset =>
          \A key \in DOMAIN cfgBefore.settings :
              key \notin NamedKeys =>
                  /\ key \in DOMAIN cfgFile.settings
                  /\ cfgFile.settings[key] = cfgBefore.settings[key]
    /\ (RanSetOrUnset /\ cfgWrites > 0) =>
          /\ cfgWrites = 1
          /\ DOMAIN cfgFile.settings \subseteq DOMAIN cfgBefore.settings \cup NamedKeys
    /\ (RanSetOrUnset /\ IsConfig(cfgArgv, "unset")
            /\ \A i \in 3..Len(cfgArgv) : cfgArgv[i] \notin DOMAIN cfgBefore.settings) =>
          /\ cfgWrites = 0
          /\ cfgFile = cfgBefore

\* C26 witness: `config set k v` rewrote a file holding j and k and left j
\* as it was; and an unset of an absent key wrote nothing.
C26_Witness ==
    /\ cfgArgv = <<"config", "set", "k", "v">>
    /\ cfgBefore.state = "file"
    /\ DOMAIN cfgBefore.settings = {"j", "k"}
    /\ cfgBefore.settings["k"] = "w"
    /\ cfgFile.settings["k"] = "v"
    /\ cfgFile.settings["j"] = cfgBefore.settings["j"]
    /\ cfgWrites = 1
    /\ IsConfig(cfgPrev.argv, "unset") /\ cfgPrev.out[Len(cfgPrev.out)].msg = "Nothing to update"

\* the name matches ^[^\s]+$
MatchesNoSpace(name) == Len(name) >= 1 /\ \A i \in 1..Len(name) : ~IsSpace(name[i])

\* C23: NewApplication returns an error for every name that does not match
\* ^[^\s]+$ (the empty name, or a name with a white space character anywhere,
\* leading or trailing spaces and tabs included) and accepts every name that
\* matches when title and version are non-empty.
C23_NameValidated ==
    nPc = "returned" =>
        /\ ~MatchesNoSpace(nName) => nErr # Nil
        /\ (MatchesNoSpace(nName) /\ TrimSpace(nTitle) # <<>> /\ TrimSpace(nVersion) # <<>>
                /\ nErr.msg # "failed to get user config directory: %w") => nErr = Nil

\* C24: Run on an application for which the author registered no command
\* fails fast, before any parsing of argv or dispatch, with an error
\* containing "must have at least one command".
C24_NoCommandsFailsFast ==
    (runs >= 1 /\ addCalls = 0 /\ rPc = "returned") =>
        /\ runErr.msg = "the application must have at least one command to be able to run"
        /\ lastExec.stage = "none"

\* the last dispatch of the Run that returned invoked a body and the body
\* returned an error
BodyFailed ==
    /\ rPc = "returned"
    /\ lastExec.stage = "run"
    /\ lastExec.body # <<>>
    /\ lastExec.c.RunFunc = "fail"

\* C25: when the resolved command's body returns an error that is not a
\* deprecation signal, Run returns that same error unchanged, performs no
\* retry, and ExecutedCommand() is the path of the resolved command.
C25_BodyErrorUnchanged ==
    BodyFailed =>
        /\ runErr = [msg |-> "body failed"]
        /\ bodies = lastExec.body
        /\ Len(bodies) = 1
        /\ executedCommand = bodies[1].path
        /\ executedCommand = CommandPath(innerfind(<<rootCommand(rootChildren)>>, argv).chain)

\* C25 witness: the body of new failed, Run returned its error and
\* ExecutedCommand() is [app, new].
C25_Witness ==
    /\ BodyFailed
    /\ argv = <<"new", "t1">>
    /\ runErr = [msg |-> "body failed"]
    /\ executedCommand = <<AppName, "new">>

\* ExecuteContextC of argv on a freshly built identical application: no flag
\* is set and the shared sentinel is as declared
FreshExecute ==
    ExecuteContextC(rootChildren, argv, [value |-> FALSE, changed |-> FALSE], <<>>, FALSE)

\* a second or later Run returned without taking a redirect
RerunReturned == runs >= 2 /\ rPc = "returned" /\ hops = 0

\* C27: re-running rebuilds state: a second Run on the same Application with
\* a different argv yields the same result, the same flag values seen by the
\* body and the same ExecutedCommand() as that argv on a freshly built
\* identical Application; no flag value set on the command line of the
\* earlier run carries over.
C27_RerunAsFresh ==
    RerunReturned =>
        /\ bodies = FreshExecute.body
        /\ executedCommand = FreshExecute.cmd
        /\ (runErr = Nil) = (FreshExecute.err = Nil)
        /\ ~IsDeprecatedCommandError(runErr) => runErr = FreshExecute.err
        /\ IsDeprecatedCommandError(runErr) =>
              DeprecatedError(runErr) = DeprecatedError(RunReturns(FreshExecute))

\* the commands from c down along path, from the i-th name of path on
RECURSIVE ChainOfPath(_, _, _)
ChainOfPath(c, path, i) ==
    IF i > Len(path) THEN <<c>>
    ELSE <<c>> \o ChainOfPath(
             c.SubCommands[CHOOSE k \in 1..Len(c.SubCommands) :
                               /\ c.SubCommands[k].Name = path[i]
                               /\ \A j \in 1..(k - 1) : c.SubCommands[j].Name # path[i]],
             path, i + 1)

\* the user-supplied functions the last dispatch invoked with bound
\* arguments: the ValidateFuncs of the hooks, then the body
UserCalls ==
    IF lastExec.stage \notin {"hooks", "run"} THEN <<>>
    ELSE UserValidateCalls(ChainOfPath(rootCommand(rootChildren), lastExec.cmd, 2), 2,
                           lastExec.args)
         \o (IF lastExec.body # <<>>
             THEN <<[fn |-> "RunFunc", Args |-> lastExec.c.Args, args |-> lastExec.args]>>
             ELSE <<>>)

\* Get of every declared non-repeatable argument and GetRepeatable of the
\* declared repeatable argument return
AccessorsReturn(cmdArgs, tokens) ==
    \A i \in 1..Len(cmdArgs) :
        IF cmdArgs[i].Repeatable
        THEN "value" \in DOMAIN GetRepeatable(newArguments(cmdArgs, tokens), cmdArgs[i].Name)
        ELSE "value" \in DOMAIN Get(newArguments(cmdArgs, tokens), cmdArgs[i].Name)

\* C28: whenever a command body or a user-supplied ValidateFunc is invoked
\* through Run, the argument-count check has already passed, so Get(name)
\* for every declared non-repeatable argument and GetRepeatable(name) for
\* the declared repeatable argument return without panicking.
C28_AccessorsSafeWhenInvoked ==
    \A k \in 1..Len(UserCalls) :
        /\ validationFunc(UserCalls[k].Args, newArguments(UserCalls[k].Args, UserCalls[k].args))
               = Nil
        /\ AccessorsReturn(UserCalls[k].Args, UserCalls[k].args)

\* C28 witness: chk (arguments x and repeatable y) was run with two tokens;
\* its ValidateFunc and its body were invoked and both accessors return.
C28_Witness ==
    /\ Len(UserCalls) = 2
    /\ UserCalls[1].fn = "ValidateFunc" /\ UserCalls[2].fn = "RunFunc"
    /\ Len(UserCalls[2].Args) = 2
    /\ Get(newArguments(UserCalls[2].Args, lastExec.args), "x") = Returned("t1")
    /\ GetRepeatable(newArguments(UserCalls[2].Args, lastExec.args), "y") = Returned(<<"t1">>)

\* C29: if AddCommand returns an error (invalid command, flag setup failure,
\* duplicate name or alias), the application's list of registered commands
\* and the children of the root parser command are the same as before the
\* call, so that a later Run cannot dispatch to a command of the failed call.
C29_FailedAddCommandChangesNothing ==
    [][(addCalls' = addCalls + 1 /\ addErr' # Nil)
           => (commands' = commands /\ rootChildren' = rootChildren)]_vars

\* a Run of the same argv as the Run before it, without a redirect, has
\* returned a deprecation signal, as the Run before it did
SameDeprecatedTwice ==
    /\ rPc = "returned"
    /\ runs >= 2
    /\ hops = 0
    /\ prevRun.argv = argv
    /\ IsDeprecatedCommandError(runErr)
    /\ IsDeprecatedCommandError(prevRun.err)

\* C30: Run modifies neither the shared sentinel
\* ErrDeprecatedCommandWithoutReplacement nor the replacement tokens a
\* deprecation marker holds: the sentinel is after a Run what it was before
\* it, and the same deprecated command invoked by two Runs in a row returns
\* errors with identical messages.
C30_SentinelUntouched ==
    /\ rPc = "returned" => sentinel = start.sentinel
    /\ SameDeprecatedTwice => DeprecatedError(runErr) = DeprecatedError(prevRun.err)

====
